---------------------------- MODULE Spec2Model ----------------------------
(***************************************************************************)
(* CCrypt: password XOR cipher, run-length codec, linked-list library of   *)
(* encrypted-file records, and the encrypt/decrypt pipeline.               *)
(*                                                                         *)
(* Byte buffers and C strings are sequences of integers 0..255 (a string   *)
(* holds no 0).  unsigned int values are kept as <<hi16, lo16>> pairs so   *)
(* that 32-bit wrap-around is computed exactly.                            *)
(***************************************************************************)
EXTENDS Integers, Sequences, FiniteSets, TLC

VARIABLES
    library,    \* encryption_library_t g_library: head, count, is_modified, next_id
    heap,       \* the allocated file_node_t objects: address -> [data, next]
    disk,       \* the filesystem: path -> file content, for the files that exist
    pc,         \* "menu", "returned" (a call's result is pending), "exited"
    last,       \* the library/workflow call that returned last, and its result
    pl,         \* pipeline harness: one encrypt_file / decrypt_file exchange
    cx_in,      \* codec/cipher harness: the input buffer
    cx_pw,      \* codec/cipher harness: the password string
    cx_op,      \* codec/cipher harness: the function that was applied
    cx_out      \* codec/cipher harness: what it returned / wrote

libVars == <<library, heap, disk, pc, last>>
cxVars == <<cx_in, cx_pw, cx_op, cx_out>>
vars == <<library, heap, disk, pc, last, pl, cx_in, cx_pw, cx_op, cx_out>>

(***************************************************************************)
(* Bounds of the model                                                     *)
(***************************************************************************)
MaxLen == 3         \* longest input buffer drawn in the codec harness
MaxPwLen == 2       \* longest password drawn
MaxNodes == 3       \* file_node_t objects the heap has room for
MaxId == 3          \* encrypt_file_workflow is not started once next_id exceeds this

(***************************************************************************)
(* Error codes                                                             *)
(***************************************************************************)
SUCCESS == 0
ERROR_FILE_NOT_FOUND == -1
ERROR_INVALID_PATH == -2
ERROR_INVALID_PASSWORD == -4
ERROR_MEMORY_ALLOCATION == -5
ERROR_RENAME_FAILED == -9
ERROR_DELETE_FAILED == -10
ERROR_NEW_FILE_NAME == -11

MAX_FILENAME_LENGTH == 100
ENC_XOR == 1
NULL == 0

(***************************************************************************)
(* Input alphabets                                                         *)
(***************************************************************************)
DataBytes == {0, 97, 98}          \* byte values of the drawn buffers
PwChars == {97, 98}               \* characters of the drawn passwords
\* what a read one past the end of a heap buffer may return
StrayBytes == {0, 98, 255}
\* what a non-void function returns when it falls off its end
\* (zero, or the value left in the result register)
UndefinedReturn == {0, 1}

SeqsUpTo(S, n) == UNION {[1..k -> S] : k \in 0..n}

Repeat(v, n) == [k \in 1..n |-> v]

(***************************************************************************)
(* Bitwise exclusive-or of two non-negative integers                       *)
(***************************************************************************)
RECURSIVE BitXor(_, _)
BitXor(a, b) ==
    IF a = 0 THEN b
    ELSE IF b = 0 THEN a
    ELSE (((a % 2) + (b % 2)) % 2) + 2 * BitXor(a \div 2, b \div 2)

(***************************************************************************)
(* compress_data: run-length encoder with a verbatim fallback.             *)
(* undef is the value the build returns on the path that has no return     *)
(* statement.                                                              *)
(***************************************************************************)
\* the run counted without the count < 255 bound of the inner loop
compress_run_unbounded(input_data, i, count) ==
    LET goes_on(c) ==
            i + c <= Len(input_data) /\ input_data[i + c] = input_data[i]
    IN  CHOOSE c \in count..(Len(input_data) + 1) :
            ~goes_on(c) /\ \A e \in count..(c - 1) : goes_on(e)

\* length of the run that starts at i: the first count at which the
\* condition of the inner while loop fails
compress_run(input_data, i, count) ==
    LET goes_on(c) ==
            /\ i + c <= Len(input_data)
            /\ input_data[i + c] = input_data[i]
            /\ c < 255
    IN  CHOOSE c \in count..255 :
            ~goes_on(c) /\ \A e \in count..(c - 1) : goes_on(e)

\* the (count, value) pairs emitted from 1-based position i on
RECURSIVE compress_pairs(_, _)
compress_pairs(input_data, i) ==
    IF i > Len(input_data) THEN <<>>
    ELSE LET count == compress_run(input_data, i, 1)
         IN  <<count, input_data[i]>> \o compress_pairs(input_data, i + count)

compress_data(input_data, undef) ==
    IF Len(input_data) <= 0
    THEN [ret |-> ERROR_INVALID_PATH, data |-> <<>>, written |-> FALSE]
    ELSE LET enc == compress_pairs(input_data, 1)
         IN  IF Len(enc) >= Len(input_data)
             THEN [ret |-> SUCCESS, data |-> input_data, written |-> TRUE]
             ELSE [ret |-> undef, data |-> enc, written |-> TRUE]

(***************************************************************************)
(* decompress_data: expands (count, value) pairs; it steps two bytes at a  *)
(* time and reads compressed_data[i + 1] without a bounds test, so on an   *)
(* odd-sized buffer the last value is the byte after the buffer (stray).   *)
(***************************************************************************)
RECURSIVE decompress_pairs(_, _, _)
decompress_pairs(compressed_data, i, stray) ==
    IF i > Len(compressed_data) THEN <<>>
    ELSE LET count == compressed_data[i]
             value == IF i + 1 <= Len(compressed_data)
                      THEN compressed_data[i + 1] ELSE stray
         IN  Repeat(value, count) \o decompress_pairs(compressed_data, i + 2, stray)

decompress_data(compressed_data, stray) ==
    IF Len(compressed_data) <= 0
    THEN [ret |-> ERROR_INVALID_PATH, data |-> <<>>, written |-> FALSE,
          read_past_end |-> FALSE]
    ELSE [ret |-> SUCCESS,
          data |-> decompress_pairs(compressed_data, 1, stray),
          written |-> TRUE,
          read_past_end |-> (Len(compressed_data) % 2) = 1]

(***************************************************************************)
(* encrypt_data / decrypt_data: XOR with the repeating password.           *)
(* output_data is the caller's buffer as it is before the call; the result *)
(* holds the buffer as it is after the call.                               *)
(***************************************************************************)
encrypt_data(input_data, password, output_data) ==
    LET pwlen == Len(password)
    IN  IF pwlen = 0
        THEN [ret |-> ERROR_INVALID_PASSWORD, output_data |-> output_data]
        ELSE [ret |-> SUCCESS,
              output_data |->
                [i \in 1..Len(output_data) |->
                    IF i <= Len(input_data)
                    THEN BitXor(input_data[i], password[((i - 1) % pwlen) + 1])
                    ELSE output_data[i]]]

\* decrypt_data with the key index one position ahead of encrypt_data's
decrypt_data_key_ahead(encrypted_data, password, output_data) ==
    LET pwlen == Len(password)
    IN  IF pwlen = 0
        THEN [ret |-> ERROR_INVALID_PASSWORD, output_data |-> output_data]
        ELSE [ret |-> SUCCESS,
              output_data |->
                [i \in 1..Len(output_data) |->
                    IF i <= Len(encrypted_data)
                    THEN BitXor(encrypted_data[i], password[(i % pwlen) + 1])
                    ELSE output_data[i]]]

decrypt_data(encrypted_data, password, output_data) ==
    LET pwlen == Len(password)
    IN  IF pwlen = 0
        THEN [ret |-> ERROR_INVALID_PASSWORD, output_data |-> output_data]
        ELSE [ret |-> SUCCESS,
              output_data |->
                [i \in 1..Len(output_data) |->
                    IF i <= Len(encrypted_data)
                    THEN BitXor(encrypted_data[i], password[((i - 1) % pwlen) + 1])
                    ELSE output_data[i]]]

\* the same two functions as src/encryption.c has them: data_size <= 0 is
\* rejected before the password is looked at
src_encrypt_data(input_data, password, output_data) ==
    IF Len(input_data) <= 0
    THEN [ret |-> ERROR_INVALID_PATH, output_data |-> output_data]
    ELSE encrypt_data(input_data, password, output_data)

src_decrypt_data(encrypted_data, password, output_data) ==
    IF Len(encrypted_data) <= 0
    THEN [ret |-> ERROR_INVALID_PATH, output_data |-> output_data]
    ELSE decrypt_data(encrypted_data, password, output_data)

(***************************************************************************)
(* unsigned int arithmetic modulo 2^32 on [hi, lo] halves of 16 bits       *)
(***************************************************************************)
U32(h, l) == [hi |-> h, lo |-> l]

\* the 32-bit product of two 16-bit values
Mul16(a, b) ==
    LET p0 == a * (b % 256)
        p1 == a * (b \div 256)
        low == p0 + (p1 % 256) * 256
    IN  U32(((p1 \div 256) + (low \div 65536)) % 65536, low % 65536)

U32Mul(x, y) ==
    LET ll == Mul16(x.lo, y.lo)
    IN  U32((ll.hi + Mul16(x.hi, y.lo).lo + Mul16(x.lo, y.hi).lo) % 65536, ll.lo)

U32Add(x, y) ==
    LET low == x.lo + y.lo
    IN  U32((x.hi + y.hi + (low \div 65536)) % 65536, low % 65536)

LCG_MULTIPLIER == U32(25, 26125)        \* 1664525u
LCG_INCREMENT == U32(15470, 62303)      \* 1013904223u
FNV_OFFSET == U32(33052, 40389)         \* 2166136261u
FNV_PRIME == U32(256, 403)              \* 16777619u

\* lcg_next: the state after one step; the byte returned is (state >> 16) & 0xFF
lcg_next(state) == U32Add(U32Mul(state, LCG_MULTIPLIER), LCG_INCREMENT)

lcg_byte(state) == state.hi % 256

RECURSIVE xor_stream_from(_, _, _)
xor_stream_from(buf, i, st) ==
    IF i > Len(buf) THEN <<>>
    ELSE LET nxt == lcg_next(st)
         IN  <<BitXor(buf[i], lcg_byte(nxt))>> \o xor_stream_from(buf, i + 1, nxt)

xor_stream(buf, seed) == xor_stream_from(buf, 1, seed)

\* seed derivation of the single-file tool: FNV-1a style hash of the password
RECURSIVE derive_seed_from(_, _, _)
derive_seed_from(password, i, seed) ==
    IF i > Len(password) THEN seed
    ELSE derive_seed_from(password, i + 1,
            U32Mul(U32(seed.hi, BitXor(seed.lo, password[i])), FNV_PRIME))

derive_seed(password) == derive_seed_from(password, 1, FNV_OFFSET)

(***************************************************************************)
(* Harness for the codec and cipher functions: the inputs are drawn in     *)
(* CxInit and each action applies one function (or one composition).       *)
(***************************************************************************)
CxIdle == [ret1 |-> 0, ret2 |-> 0, mid |-> <<>>, data |-> <<>>, buf0 |-> <<>>]

CxInit ==
    /\ cx_in \in SeqsUpTo(DataBytes, MaxLen)
    /\ cx_pw \in SeqsUpTo(PwChars, MaxPwLen)
    /\ cx_op = "none"
    /\ cx_out = CxIdle
    /\ library = [head |-> 0, count |-> 0, is_modified |-> 0, next_id |-> 1]
    /\ heap = <<>>
    /\ disk = <<>>
    /\ pc = "off"
    /\ last = [op |-> "none", ret |-> 0, index |-> 0, name |-> <<>>, sys |-> 0]
    /\ pl = [pc |-> "off"]

\* decompress_data(compress_data(x))
CompressThenDecompress ==
    /\ cx_op = "none"
    /\ \E undef \in UndefinedReturn, stray \in StrayBytes :
         LET c == compress_data(cx_in, undef)
             d == decompress_data(c.data, stray)
         IN  cx_out' = IF c.ret # SUCCESS
                       THEN [CxIdle EXCEPT !.ret1 = c.ret, !.ret2 = c.ret]
                       ELSE [CxIdle EXCEPT !.ret1 = c.ret, !.ret2 = d.ret,
                                           !.mid = c.data, !.data = d.data]
    /\ cx_op' = "compress_decompress"
    /\ UNCHANGED <<cx_in, cx_pw, library, heap, disk, pc, last, pl>>

\* decrypt_data(encrypt_data(x, p), p), each into a fresh buffer of data_size bytes
EncryptThenDecrypt ==
    /\ cx_op = "none"
    /\ \E stale \in StrayBytes :
         LET buf0 == Repeat(stale, Len(cx_in))
             e == encrypt_data(cx_in, cx_pw, buf0)
             d == decrypt_data(e.output_data, cx_pw, buf0)
         IN  cx_out' = IF e.ret # SUCCESS
                       THEN [CxIdle EXCEPT !.ret1 = e.ret, !.ret2 = e.ret,
                                           !.mid = e.output_data, !.buf0 = buf0]
                       ELSE [CxIdle EXCEPT !.ret1 = e.ret, !.ret2 = d.ret,
                                           !.mid = e.output_data,
                                           !.data = d.output_data, !.buf0 = buf0]
    /\ cx_op' = "encrypt_decrypt"
    /\ UNCHANGED <<cx_in, cx_pw, library, heap, disk, pc, last, pl>>

\* one call of encrypt_data / decrypt_data, of either source file
CallCipher(name, r, buf0) ==
    /\ cx_out' = [CxIdle EXCEPT !.ret1 = r.ret, !.ret2 = r.ret,
                                !.data = r.output_data, !.buf0 = buf0]
    /\ cx_op' = name
    /\ UNCHANGED <<cx_in, cx_pw, library, heap, disk, pc, last, pl>>

EncryptData ==
    /\ cx_op = "none"
    /\ \E stale \in StrayBytes :
         LET buf0 == Repeat(stale, Len(cx_in))
         IN  CallCipher("encrypt_data", encrypt_data(cx_in, cx_pw, buf0), buf0)

DecryptData ==
    /\ cx_op = "none"
    /\ \E stale \in StrayBytes :
         LET buf0 == Repeat(stale, Len(cx_in))
         IN  CallCipher("decrypt_data", decrypt_data(cx_in, cx_pw, buf0), buf0)

SrcEncryptData ==
    /\ cx_op = "none"
    /\ \E stale \in StrayBytes :
         LET buf0 == Repeat(stale, Len(cx_in))
         IN  CallCipher("src_encrypt_data", src_encrypt_data(cx_in, cx_pw, buf0), buf0)

SrcDecryptData ==
    /\ cx_op = "none"
    /\ \E stale \in StrayBytes :
         LET buf0 == Repeat(stale, Len(cx_in))
         IN  CallCipher("src_decrypt_data", src_decrypt_data(cx_in, cx_pw, buf0), buf0)

\* xor_stream applied twice with the seed derived from the password
XorStreamTwice ==
    /\ cx_op = "none"
    /\ LET seed == derive_seed(cx_pw)
           once == xor_stream(cx_in, seed)
       IN  cx_out' = [CxIdle EXCEPT !.mid = once, !.data = xor_stream(once, seed)]
    /\ cx_op' = "xor_stream_twice"
    /\ UNCHANGED <<cx_in, cx_pw, library, heap, disk, pc, last, pl>>

CxNext ==
    \/ CompressThenDecompress
    \/ EncryptThenDecrypt
    \/ EncryptData
    \/ DecryptData
    \/ SrcEncryptData
    \/ SrcDecryptData
    \/ XorStreamTwice

SpecCodec == CxInit /\ [][CxNext]_vars

(***************************************************************************)
(* C strings                                                               *)
(***************************************************************************)
Min(a, b) == IF a < b THEN a ELSE b

\* strrchr: the 1-based position of the last c in s, 0 when there is none
strrchr(s, c) ==
    LET hits == {i \in 1..Len(s) : s[i] = c}
    IN  IF hits = {} THEN 0 ELSE CHOOSE i \in hits : \A j \in hits : j <= i

\* safe_string_copy / strncpy + terminator: at most dest_size - 1 characters
safe_string_copy(src, dest_size) == SubSeq(src, 1, Min(Len(src), dest_size - 1))

CH_SLASH == 47
CH_BACKSLASH == 92
CH_DOT == 46
DOT_CCRYPT == <<46, 99, 99, 114, 121, 112, 116>>      \* ".ccrypt"
UNDERSCORE_DEC == <<95, 100, 101, 99>>                \* "_dec"

\* generate_encrypted_filename: "<base name without extension>.ccrypt";
\* the id argument is not used
generate_encrypted_filename(original_path, buffer_size, id) ==
    LET slash == IF strrchr(original_path, CH_SLASH) # 0
                 THEN strrchr(original_path, CH_SLASH)
                 ELSE strrchr(original_path, CH_BACKSLASH)
        filename == SubSeq(original_path, slash + 1, Len(original_path))
        copied == safe_string_copy(filename, MAX_FILENAME_LENGTH)
        ext == strrchr(copied, CH_DOT)
        base_name == IF ext # 0 THEN SubSeq(copied, 1, ext - 1) ELSE copied
    IN  safe_string_copy(base_name \o DOT_CCRYPT, buffer_size)

(***************************************************************************)
(* The library: a singly linked list of file_node_t in the heap            *)
(***************************************************************************)
Addresses == 1..MaxNodes

\* malloc(sizeof(file_node_t)): NULL when the allocation fails
malloc_node(h, oom) ==
    LET free == Addresses \ DOMAIN h
    IN  IF oom \/ free = {} THEN NULL
        ELSE CHOOSE a \in free : \A b \in free : a <= b

\* the nodes met when following next from p (fuel stops a cyclic walk)
RECURSIVE walk(_, _, _)
walk(h, p, fuel) ==
    IF p = NULL \/ fuel = 0 \/ p \notin DOMAIN h THEN <<>>
    ELSE <<p>> \o walk(h, h[p].next, fuel - 1)

Nodes(lib, h) == walk(h, lib.head, MaxNodes + 2)

\* the records in iteration order
Records(lib, h) ==
    LET ns == Nodes(lib, h)
    IN  [i \in 1..Len(ns) |-> h[ns[i]].data]

\* initialize_program + load_encryption_library
EmptyLibrary == [head |-> NULL, count |-> 0, is_modified |-> 0, next_id |-> 1]

\* while (cur->next) cur = cur->next;
RECURSIVE last_node(_, _)
last_node(h, cur) == IF h[cur].next # NULL THEN last_node(h, h[cur].next) ELSE cur

\* add_file_to_library without its library->is_modified = 1
add_file_to_library_unmarked(lib, h, metadata, oom) ==
    LET node == malloc_node(h, oom)
    IN  IF node = NULL
        THEN [ret |-> ERROR_MEMORY_ALLOCATION, library |-> lib, heap |-> h]
        ELSE LET h1 == [a \in DOMAIN h \cup {node} |->
                          IF a = node THEN [data |-> metadata, next |-> NULL]
                          ELSE h[a]]
                 h2 == IF lib.head = NULL THEN h1
                       ELSE [h1 EXCEPT ![last_node(h1, lib.head)].next = node]
             IN  [ret |-> SUCCESS,
                  library |-> [lib EXCEPT !.head = IF lib.head = NULL THEN node ELSE @,
                                          !.count = @ + 1],
                  heap |-> h2]

\* add_file_to_library without its library->count++
add_file_to_library_uncounted(lib, h, metadata, oom) ==
    LET node == malloc_node(h, oom)
    IN  IF node = NULL
        THEN [ret |-> ERROR_MEMORY_ALLOCATION, library |-> lib, heap |-> h]
        ELSE LET h1 == [a \in DOMAIN h \cup {node} |->
                          IF a = node THEN [data |-> metadata, next |-> NULL]
                          ELSE h[a]]
                 h2 == IF lib.head = NULL THEN h1
                       ELSE [h1 EXCEPT ![last_node(h1, lib.head)].next = node]
             IN  [ret |-> SUCCESS,
                  library |-> [lib EXCEPT !.head = IF lib.head = NULL THEN node ELSE @,
                                          !.is_modified = 1],
                  heap |-> h2]

add_file_to_library(lib, h, metadata, oom) ==
    LET node == malloc_node(h, oom)
    IN  IF node = NULL
        THEN [ret |-> ERROR_MEMORY_ALLOCATION, library |-> lib, heap |-> h]
        ELSE LET h1 == [a \in DOMAIN h \cup {node} |->
                          IF a = node THEN [data |-> metadata, next |-> NULL]
                          ELSE h[a]]
                 h2 == IF lib.head = NULL THEN h1
                       ELSE [h1 EXCEPT ![last_node(h1, lib.head)].next = node]
             IN  [ret |-> SUCCESS,
                  library |-> [lib EXCEPT !.head = IF lib.head = NULL THEN node ELSE @,
                                          !.count = @ + 1,
                                          !.is_modified = 1],
                  heap |-> h2]

\* while (cur && i < index) { prev = cur; cur = cur->next; i++; }
RECURSIVE seek(_, _, _, _, _)
seek(h, prev, cur, i, index) ==
    IF cur # NULL /\ i < index
    THEN seek(h, cur, h[cur].next, i + 1, index)
    ELSE [prev |-> prev, cur |-> cur]

\* the unlink step of remove_file_from_library, once the node is found
unlink(lib, h, at) ==
    LET h1 == IF at.prev # NULL
              THEN [h EXCEPT ![at.prev].next = h[at.cur].next]
              ELSE h
        head1 == IF at.prev # NULL THEN lib.head ELSE h[at.cur].next
    IN  [ret |-> SUCCESS,
         library |-> [lib EXCEPT !.head = head1,
                                 !.count = @ - 1,
                                 !.is_modified = 1],
         heap |-> [a \in DOMAIN h1 \ {at.cur} |-> h1[a]]]

\* remove_file_from_library walking one node too far (i <= index)
remove_file_from_library_one_past(lib, h, index) ==
    IF index < 0 \/ index >= lib.count
    THEN [ret |-> ERROR_INVALID_PATH, library |-> lib, heap |-> h]
    ELSE LET at == seek(h, NULL, lib.head, 0, index + 1)
         IN  IF at.cur = NULL
             THEN [ret |-> ERROR_INVALID_PATH, library |-> lib, heap |-> h]
             ELSE unlink(lib, h, at)

\* remove_file_from_library without its range check on index
remove_file_from_library_unchecked(lib, h, index) ==
    LET at == seek(h, NULL, lib.head, 0, index)
    IN  IF at.cur = NULL
        THEN [ret |-> ERROR_INVALID_PATH, library |-> lib, heap |-> h]
        ELSE unlink(lib, h, at)

remove_file_from_library(lib, h, index) ==
    IF index < 0 \/ index >= lib.count
    THEN [ret |-> ERROR_INVALID_PATH, library |-> lib, heap |-> h]
    ELSE LET at == seek(h, NULL, lib.head, 0, index)
         IN  IF at.cur = NULL
             THEN [ret |-> ERROR_INVALID_PATH, library |-> lib, heap |-> h]
             ELSE unlink(lib, h, at)

\* get_library_entry: the node whose data is returned, NULL when out of range
get_library_entry(lib, h, index) ==
    IF index < 0 \/ index >= lib.count THEN NULL
    ELSE seek(h, NULL, lib.head, 0, index).cur

(***************************************************************************)
(* The C library's remove() and rename() on the model filesystem.  refuse  *)
(* stands for a failure the operating system reports for its own reasons.  *)
(***************************************************************************)
fs_remove(d, path, refuse) ==
    IF refuse \/ path \notin DOMAIN d
    THEN [ret |-> -1, disk |-> d]
    ELSE [ret |-> 0, disk |-> [q \in DOMAIN d \ {path} |-> d[q]]]

fs_rename(d, old, new, refuse) ==
    IF refuse \/ old \notin DOMAIN d
    THEN [ret |-> -1, disk |-> d]
    ELSE [ret |-> 0,
          disk |-> [q \in (DOMAIN d \ {old}) \cup {new} |->
                      IF q = new THEN d[old] ELSE d[q]]]

\* fopen(path, "wb") + fwrite + fclose
fs_write(d, path, content) ==
    [q \in DOMAIN d \cup {path} |-> IF q = path THEN content ELSE d[q]]

delete_encrypted_file(lib, h, d, index, refuse) ==
    LET cur_file == get_library_entry(lib, h, index)
    IN  IF cur_file = NULL
        THEN [ret |-> ERROR_INVALID_PATH, library |-> lib, heap |-> h, disk |-> d,
              sys |-> 0]
        ELSE LET rm == fs_remove(d, h[cur_file].data.original_filename, refuse)
             IN  IF rm.ret # SUCCESS
                 THEN [ret |-> ERROR_DELETE_FAILED, library |-> lib, heap |-> h,
                       disk |-> d, sys |-> rm.ret]
                 ELSE LET r == remove_file_from_library(lib, h, index)
                      IN  [ret |-> r.ret, library |-> r.library, heap |-> r.heap,
                           disk |-> rm.disk, sys |-> rm.ret]

\* rename_encrypted_file recording the new name before looking at what
\* rename() returned
rename_encrypted_file_eager(lib, h, d, index, new_name, refuse) ==
    LET cur_file == get_library_entry(lib, h, index)
    IN  IF cur_file = NULL
        THEN [ret |-> ERROR_INVALID_PATH, library |-> lib, heap |-> h, disk |-> d,
              sys |-> 0]
        ELSE LET mv == fs_rename(d, h[cur_file].data.original_filename, new_name,
                                 refuse)
                 h1 == [h EXCEPT ![cur_file].data.encrypted_filename =
                          safe_string_copy(new_name, MAX_FILENAME_LENGTH)]
             IN  IF mv.ret # SUCCESS
                 THEN [ret |-> ERROR_RENAME_FAILED, library |-> lib, heap |-> h1,
                       disk |-> d, sys |-> mv.ret]
                 ELSE [ret |-> SUCCESS, library |-> lib, heap |-> h1,
                       disk |-> mv.disk, sys |-> mv.ret]

rename_encrypted_file(lib, h, d, index, new_name, refuse) ==
    LET cur_file == get_library_entry(lib, h, index)
    IN  IF cur_file = NULL
        THEN [ret |-> ERROR_INVALID_PATH, library |-> lib, heap |-> h, disk |-> d,
              sys |-> 0]
        ELSE LET mv == fs_rename(d, h[cur_file].data.original_filename, new_name,
                                 refuse)
             IN  IF mv.ret # SUCCESS
                 THEN [ret |-> ERROR_RENAME_FAILED, library |-> lib, heap |-> h,
                       disk |-> d, sys |-> mv.ret]
                 ELSE [ret |-> SUCCESS, library |-> lib,
                       heap |-> [h EXCEPT ![cur_file].data.encrypted_filename =
                                   safe_string_copy(new_name, MAX_FILENAME_LENGTH)],
                       disk |-> mv.disk, sys |-> mv.ret]

(***************************************************************************)
(* Sorting: the records are copied to an array, qsort'ed, and written back *)
(* into the nodes in list order.  qsort leaves the order of elements that  *)
(* compare equal unspecified, so it has a set of possible outcomes.        *)
(***************************************************************************)
RemoveAt(s, k) == [i \in 1..(Len(s) - 1) |-> IF i < k THEN s[i] ELSE s[i + 1]]

RECURSIVE Reorderings(_)
Reorderings(arr) ==
    IF arr = <<>> THEN {<<>>}
    ELSE UNION {{<<arr[k]>> \o r : r \in Reorderings(RemoveAt(arr, k))} :
                  k \in 1..Len(arr)}

cmp_date(x, y) ==
    IF x.encryption_id < y.encryption_id THEN 1
    ELSE IF x.encryption_id > y.encryption_id THEN -1
    ELSE 0

\* cmp_size with its two results exchanged (smaller first)
cmp_size_ascending(x, y) ==
    IF x.original_size < y.original_size THEN -1
    ELSE IF x.original_size > y.original_size THEN 1
    ELSE 0

cmp_size(x, y) ==
    IF x.original_size < y.original_size THEN 1
    ELSE IF x.original_size > y.original_size THEN -1
    ELSE 0

\* qsort(arr, n, sizeof(file_metadata_t), cmp_date)
qsort_cmp_date(arr) ==
    {q \in Reorderings(arr) :
        \A i, j \in 1..Len(arr) : i < j => cmp_date(q[i], q[j]) <= 0}

\* qsort(arr, n, sizeof(file_metadata_t), cmp_size)
qsort_cmp_size(arr) ==
    {q \in Reorderings(arr) :
        \A i, j \in 1..Len(arr) : i < j => cmp_size(q[i], q[j]) <= 0}

\* cmp_name has no return statement: the comparison result is indeterminate
\* and qsort may leave the array in any order
qsort_cmp_name(arr) == Reorderings(arr)

\* while (cur && i < n) { cur->data = arr[i++]; cur = cur->next; }
write_back(lib, h, arr) ==
    LET ns == Nodes(lib, h)
    IN  [a \in DOMAIN h |->
            IF \E i \in 1..Len(ns) : ns[i] = a /\ i <= Len(arr)
            THEN [h[a] EXCEPT !.data = arr[CHOOSE i \in 1..Len(ns) : ns[i] = a]]
            ELSE h[a]]

\* the array the sort functions build: arr[i] = cur->data for i < count
sort_array(lib, h) ==
    SubSeq(Records(lib, h), 1, Min(lib.count, Len(Records(lib, h))))

\* each sort function, as the set of heaps it may leave; oom: malloc of the
\* array returns NULL and the function returns at once
sort_library_by_name(lib, h, oom) ==
    IF lib.count <= 1 \/ oom THEN {h}
    ELSE {write_back(lib, h, q) : q \in qsort_cmp_name(sort_array(lib, h))}

sort_library_by_date(lib, h, oom) ==
    IF lib.count <= 1 \/ oom THEN {h}
    ELSE {write_back(lib, h, q) : q \in qsort_cmp_date(sort_array(lib, h))}

sort_library_by_size(lib, h, oom) ==
    IF lib.count <= 1 \/ oom THEN {h}
    ELSE {write_back(lib, h, q) : q \in qsort_cmp_size(sort_array(lib, h))}

(***************************************************************************)
(* encrypt_file and decrypt_file                                           *)
(*   undef : what compress_data returns on its path without a return       *)
(*   nomem : which malloc of the call returns NULL (0: none)               *)
(*   stray : the byte that lies after the decrypted buffer                 *)
(***************************************************************************)
NoMetadata ==
    [original_filename |-> <<>>, encrypted_filename |-> <<>>,
     original_size |-> 0, encrypted_size |-> 0, encryption_id |-> 0,
     encryption_method |-> 0, is_compressed |-> 0]

encrypt_file(d, input_path, output_path, password, use_compression, method, undef, nomem) ==
    IF input_path \notin DOMAIN d
    THEN [ret |-> ERROR_FILE_NOT_FOUND, disk |-> d, metadata |-> NoMetadata]
    ELSE
    LET d1 == fs_write(d, output_path, <<>>)        \* fopen(output_path, "wb")
        input_data == d1[input_path]
        input_size == Len(input_data)
        c == IF use_compression # 0
             THEN compress_data(input_data, undef)
             ELSE [ret |-> SUCCESS, data |-> input_data, written |-> TRUE]
        processed_data == c.data
        processed_size == Len(c.data)
        e == encrypt_data(processed_data, password, Repeat(0, processed_size))
    IN  IF nomem = 1
        THEN [ret |-> ERROR_MEMORY_ALLOCATION, disk |-> d1, metadata |-> NoMetadata]
        ELSE IF use_compression # 0 /\ nomem = 2
        THEN [ret |-> ERROR_MEMORY_ALLOCATION, disk |-> d1, metadata |-> NoMetadata]
        ELSE IF c.ret # SUCCESS
        THEN [ret |-> c.ret, disk |-> d1, metadata |-> NoMetadata]
        ELSE IF nomem = 3
        THEN [ret |-> ERROR_MEMORY_ALLOCATION, disk |-> d1, metadata |-> NoMetadata]
        ELSE IF e.ret # SUCCESS
        THEN [ret |-> e.ret, disk |-> d1, metadata |-> NoMetadata]
        ELSE [ret |-> SUCCESS,
              disk |-> fs_write(d1, output_path, e.output_data),
              metadata |->
                [original_filename |-> safe_string_copy(input_path, MAX_FILENAME_LENGTH),
                 encrypted_filename |-> safe_string_copy(output_path, MAX_FILENAME_LENGTH),
                 original_size |-> input_size,
                 encrypted_size |-> processed_size,
                 encryption_id |-> 0,
                 encryption_method |-> method,
                 is_compressed |-> use_compression]]

\* overflow: decompress_data wrote more than the 2 * original_size bytes
\* allocated for it; abort: the process is killed by the damaged heap
decrypt_file(d, encrypted_path, output_path, password, method, metadata, stray, nomem, abort) ==
    IF encrypted_path \notin DOMAIN d
    THEN [ret |-> ERROR_FILE_NOT_FOUND, disk |-> d, overflow |-> FALSE,
          read_past_end |-> FALSE, killed |-> FALSE]
    ELSE
    LET enc_data == d[encrypted_path]
        enc_size == Len(enc_data)
        dec == decrypt_data(enc_data, password, Repeat(0, enc_size))
        dc == IF metadata.is_compressed # 0
              THEN decompress_data(dec.output_data, stray)
              ELSE [ret |-> SUCCESS, data |-> dec.output_data, written |-> TRUE,
                    read_past_end |-> FALSE]
        overflow == metadata.is_compressed # 0
                    /\ Len(dc.data) > metadata.original_size * 2
        fail(code) == [ret |-> code, disk |-> d, overflow |-> FALSE,
                       read_past_end |-> FALSE, killed |-> FALSE]
    IN  IF nomem = 1 \/ nomem = 2 THEN fail(ERROR_MEMORY_ALLOCATION)
        ELSE IF dec.ret # SUCCESS THEN fail(dec.ret)
        ELSE IF metadata.is_compressed # 0 /\ nomem = 3
        THEN fail(ERROR_MEMORY_ALLOCATION)
        ELSE IF dc.ret # SUCCESS THEN fail(dc.ret)
        ELSE IF overflow /\ abort
        THEN [ret |-> SUCCESS, disk |-> d, overflow |-> TRUE,
              read_past_end |-> dc.read_past_end, killed |-> TRUE]
        ELSE [ret |-> SUCCESS,
              disk |-> fs_write(d, output_path, dc.data),
              overflow |-> overflow,
              read_past_end |-> dc.read_past_end, killed |-> FALSE]

(***************************************************************************)
(* The two workflows.  A line read from stdin is [eof, text]: eof when     *)
(* fgets returned NULL, otherwise the text with its newline stripped.      *)
(***************************************************************************)
Line(t) == [eof |-> FALSE, text |-> t]
EndOfInput == [eof |-> TRUE, text |-> <<>>]

\* validate_file_path: fopen(file_path, "rb") succeeds
validate_file_path(d, file_path) ==
    IF file_path \in DOMAIN d THEN SUCCESS ELSE ERROR_FILE_NOT_FOUND

\* get_file_path_from_user, given the line typed (already trimmed)
get_file_path_from_user(d, line) ==
    IF line.eof THEN ERROR_INVALID_PATH ELSE validate_file_path(d, line.text)

\* the tail of encrypt_file_workflow without its library->next_id++
assign_id_and_add_stale(lib, h, metadata, oom) ==
    LET added == add_file_to_library(lib, h,
                    [metadata EXCEPT !.encryption_id = lib.next_id], oom)
    IN  [ret |-> added.ret, library |-> added.library, heap |-> added.heap]

\* the tail of encrypt_file_workflow: the record gets the library's next_id,
\* is added, and next_id advances when the add succeeded
assign_id_and_add(lib, h, metadata, oom) ==
    LET added == add_file_to_library(lib, h,
                    [metadata EXCEPT !.encryption_id = lib.next_id], oom)
    IN  [ret |-> added.ret,
         library |-> IF added.ret = SUCCESS
                     THEN [added.library EXCEPT !.next_id = @ + 1]
                     ELSE added.library,
         heap |-> added.heap]

encrypt_file_workflow(lib, h, d, path_line, use_compression, pw_line, undef, nomem, oom) ==
    LET same(code) == [ret |-> code, library |-> lib, heap |-> h, disk |-> d]
        file_path == path_line.text
        password == pw_line.text
        encrypted_filename ==
            generate_encrypted_filename(file_path, MAX_FILENAME_LENGTH, lib.next_id)
        enc == encrypt_file(d, file_path, encrypted_filename, password,
                            use_compression, ENC_XOR, undef, nomem)
        added == assign_id_and_add(lib, h, enc.metadata, oom)
    IN  IF get_file_path_from_user(d, path_line) # SUCCESS
        THEN same(get_file_path_from_user(d, path_line))
        ELSE IF pw_line.eof THEN same(ERROR_INVALID_PASSWORD)
        ELSE IF enc.ret # SUCCESS
        THEN [ret |-> enc.ret, library |-> lib, heap |-> h, disk |-> enc.disk]
        ELSE [ret |-> added.ret, library |-> added.library, heap |-> added.heap,
              disk |-> enc.disk]

decrypt_file_workflow(lib, h, d, path_line, pw_line, nomem) ==
    LET same(code) == [ret |-> code, library |-> lib, heap |-> h, disk |-> d]
        encrypted_path == path_line.text
        output_path == encrypted_path \o UNDERSCORE_DEC
        dummy_metadata == NoMetadata
        dec == decrypt_file(d, encrypted_path, output_path, pw_line.text, ENC_XOR,
                            dummy_metadata, 0, nomem, FALSE)
    IN  IF path_line.eof THEN same(ERROR_INVALID_PATH)
        ELSE IF validate_file_path(d, encrypted_path) # SUCCESS
        THEN same(validate_file_path(d, encrypted_path))
        ELSE IF pw_line.eof THEN same(ERROR_INVALID_PASSWORD)
        ELSE [ret |-> dec.ret, library |-> lib, heap |-> h, disk |-> dec.disk]

\* cleanup_program: save_encryption_library writes nothing, then
\* secure_memory_clear zeroes the whole library structure
cleanup_program(lib) ==
    [head |-> NULL, count |-> 0, is_modified |-> 0, next_id |-> 0]

(***************************************************************************)
(* The program: the library operations and workflows on one library        *)
(***************************************************************************)
PATH_A == <<97, 46, 116>>                 \* "a.t"
PATH_NONE == <<122>>                      \* "z", a file that does not exist
PATH_A_CCRYPT == <<97>> \o DOT_CCRYPT     \* "a.ccrypt"
NAME_N == <<110>>                         \* "n"

UserFiles == (PATH_A :> <<97, 97, 97>>)

PathLines == {Line(PATH_A), Line(PATH_NONE), EndOfInput}
PasswordLines == {Line(<<>>), Line(<<107>>), EndOfInput}
NewNames == {NAME_N}

Idle == [op |-> "none", ret |-> 0, index |-> 0, name |-> <<>>, sys |-> 0]

PlIdle == [pc |-> "off"]

Init ==
    /\ library = EmptyLibrary
    /\ heap = <<>>
    /\ disk = UserFiles
    /\ pc = "menu"
    /\ last = Idle
    /\ pl = PlIdle
    /\ cx_in = <<>>
    /\ cx_pw = <<>>
    /\ cx_op = "off"
    /\ cx_out = CxIdle

\* sys: what the C library's remove() / rename() returned, 0 when not called
Returned(r, op, index, name, sys) ==
    /\ library' = r.library
    /\ heap' = r.heap
    /\ disk' = r.disk
    /\ last' = [op |-> op, ret |-> r.ret, index |-> index, name |-> name,
                sys |-> sys]
    /\ pc' = "returned"
    /\ UNCHANGED <<pl, cxVars>>

\* the answers that are read only when the path was accepted
AfterPath(path_line, S) ==
    IF get_file_path_from_user(disk, path_line) = SUCCESS THEN S ELSE {CHOOSE x \in S : TRUE}

EncryptFileWorkflow ==
    /\ pc = "menu"
    /\ library.next_id <= MaxId
    /\ \E path_line \in PathLines :
       \E use_compression \in AfterPath(path_line, {0, 1}),
          pw_line \in AfterPath(path_line, PasswordLines) :
       \E undef \in IF use_compression = 1 THEN UndefinedReturn ELSE {0},
          nomem \in AfterPath(path_line, 0..3),
          oom \in AfterPath(path_line, BOOLEAN) :
         Returned(encrypt_file_workflow(library, heap, disk, path_line,
                                        use_compression, pw_line, undef, nomem, oom),
                  "encrypt_file_workflow", 0, path_line.text, 0)

RemoveFile ==
    /\ pc = "menu"
    /\ \E index \in -1..(library.count + 1) :
         LET r == remove_file_from_library(library, heap, index)
         IN  Returned([ret |-> r.ret, library |-> r.library, heap |-> r.heap,
                       disk |-> disk],
                      "remove_file_from_library", index, <<>>, 0)

DeleteEncryptedFile ==
    /\ pc = "menu"
    /\ \E index \in -1..library.count, refuse \in BOOLEAN :
         LET r == delete_encrypted_file(library, heap, disk, index, refuse)
         IN  Returned(r, "delete_encrypted_file", index, <<>>, r.sys)

RenameEncryptedFile ==
    /\ pc = "menu"
    /\ \E index \in -1..library.count, new_name \in NewNames, refuse \in BOOLEAN :
         LET r == rename_encrypted_file(library, heap, disk, index, new_name, refuse)
         IN  Returned(r, "rename_encrypted_file", index, new_name, r.sys)

Sorted(outcomes, op) ==
    /\ \E h \in outcomes : heap' = h
    /\ last' = [Idle EXCEPT !.op = op]
    /\ pc' = "returned"
    /\ UNCHANGED <<library, disk, pl, cxVars>>

SortByName ==
    /\ pc = "menu"
    /\ \E oom \in BOOLEAN :
         Sorted(sort_library_by_name(library, heap, oom), "sort_library_by_name")

SortByDate ==
    /\ pc = "menu"
    /\ \E oom \in BOOLEAN :
         Sorted(sort_library_by_date(library, heap, oom), "sort_library_by_date")

SortBySize ==
    /\ pc = "menu"
    /\ \E oom \in BOOLEAN :
         Sorted(sort_library_by_size(library, heap, oom), "sort_library_by_size")

\* main_menu_loop: the result is reported and the menu is shown again
MainMenuLoop ==
    /\ pc = "returned"
    /\ pc' = "menu"
    /\ last' = Idle
    /\ UNCHANGED <<library, heap, disk, pl, cxVars>>

CleanupProgram ==
    /\ pc = "menu"
    /\ library' = cleanup_program(library)
    /\ pc' = "exited"
    /\ last' = [Idle EXCEPT !.op = "cleanup_program"]
    /\ UNCHANGED <<heap, disk, pl, cxVars>>

Next ==
    \/ EncryptFileWorkflow
    \/ RemoveFile
    \/ DeleteEncryptedFile
    \/ RenameEncryptedFile
    \/ SortByName
    \/ SortByDate
    \/ SortBySize
    \/ MainMenuLoop
    \/ CleanupProgram

Spec == Init /\ [][Next]_vars


(***************************************************************************)
(* Pipeline harness: one file is encrypted with encrypt_file and the       *)
(* artifact is then decrypted, either with decrypt_file and the metadata   *)
(* encrypt_file filled in, or with decrypt_file_workflow.                  *)
(***************************************************************************)
PATH_OUT == <<111>>                       \* "o"
Passwords == SeqsUpTo(PwChars, MaxPwLen)

PlStart(content) ==
    [pc |-> "start", plain |-> content, password |-> <<>>, use_compression |-> 0,
     enc_ret |-> 0, metadata |-> NoMetadata, dec_password |-> <<>>, dec_ret |-> 0,
     nomem |-> 0, overflow |-> FALSE, read_past_end |-> FALSE, killed |-> FALSE]

PlInit ==
    /\ \E content \in SeqsUpTo(DataBytes, MaxLen) :
         /\ disk = (PATH_A :> content)
         /\ pl = PlStart(content)
    /\ library = EmptyLibrary
    /\ heap = <<>>
    /\ pc = "off"
    /\ last = Idle
    /\ cx_in = <<>>
    /\ cx_pw = <<>>
    /\ cx_op = "off"
    /\ cx_out = CxIdle

PlEncryptFile ==
    /\ pl.pc = "start"
    /\ \E password \in Passwords, use_compression \in {0, 1}, nomem \in 0..3 :
       \E undef \in IF use_compression = 1 THEN UndefinedReturn ELSE {0} :
         LET r == encrypt_file(disk, PATH_A, PATH_A_CCRYPT, password,
                               use_compression, ENC_XOR, undef, nomem)
         IN  /\ disk' = r.disk
             /\ pl' = [pl EXCEPT !.pc = IF r.ret = SUCCESS THEN "encrypted"
                                        ELSE "encrypt_failed",
                                 !.password = password,
                                 !.use_compression = use_compression,
                                 !.enc_ret = r.ret,
                                 !.metadata = r.metadata,
                                 !.nomem = nomem]
    /\ UNCHANGED <<library, heap, pc, last, cxVars>>

PlDecryptFile ==
    /\ pl.pc = "encrypted"
    /\ \E password \in Passwords, stray \in StrayBytes, nomem \in 0..3,
          abort \in BOOLEAN :
         LET r == decrypt_file(disk, PATH_A_CCRYPT, PATH_OUT, password, ENC_XOR,
                               pl.metadata, stray, nomem, abort)
         IN  /\ disk' = r.disk
             /\ pl' = [pl EXCEPT !.pc = "decrypted",
                                 !.dec_password = password,
                                 !.dec_ret = r.ret,
                                 !.nomem = nomem,
                                 !.overflow = r.overflow,
                                 !.read_past_end = r.read_past_end,
                                 !.killed = r.killed]
    /\ UNCHANGED <<library, heap, pc, last, cxVars>>

PlDecryptFileWorkflow ==
    /\ pl.pc = "encrypted"
    /\ \E path_line \in {Line(PATH_A_CCRYPT), Line(PATH_NONE), EndOfInput},
          pw_line \in {Line(p) : p \in Passwords} \cup {EndOfInput},
          nomem \in 0..3 :
         LET r == decrypt_file_workflow(library, heap, disk, path_line, pw_line,
                                        nomem)
         IN  /\ disk' = r.disk
             /\ pl' = [pl EXCEPT !.pc = "workflow_done",
                                 !.dec_password = pw_line.text,
                                 !.dec_ret = r.ret,
                                 !.nomem = nomem]
    /\ UNCHANGED <<library, heap, pc, last, cxVars>>

PlNext ==
    \/ PlEncryptFile
    \/ PlDecryptFile
    \/ PlDecryptFileWorkflow

SpecPipeline == PlInit /\ [][PlNext]_vars


(***************************************************************************)
(* Properties                                                              *)
(***************************************************************************)

\* C1: encrypt_file followed by decrypt_file with the same password and the
\* metadata encrypt_file produced writes exactly the original bytes, with
\* and without compression (memory allocation succeeding).
C1_PipelineRoundTrip ==
    (pl.pc = "decrypted" /\ pl.dec_password = pl.password /\ pl.nomem = 0)
    => /\ pl.dec_ret = SUCCESS
       /\ ~pl.killed
       /\ PATH_OUT \in DOMAIN disk
       /\ disk[PATH_OUT] = pl.plain

\* C2: decompress_data applied to the output of compress_data(x) succeeds
\* and yields exactly x, for every x including the empty sequence.
C2_CodecRoundTrip ==
    cx_op = "compress_decompress"
    => /\ cx_out.ret1 = SUCCESS
       /\ cx_out.ret2 = SUCCESS
       /\ cx_out.data = cx_in

\* C3: the cipher is self-inverse and length-preserving: with a non-empty
\* password, decrypt_data(encrypt_data(x, p), p) = x and the ciphertext is
\* as long as x; xor_stream applied twice with the seed derived from p
\* gives x back.
C3_CipherSelfInverse ==
    /\ (cx_op = "encrypt_decrypt" /\ Len(cx_pw) > 0)
       => /\ cx_out.ret1 = SUCCESS
          /\ cx_out.ret2 = SUCCESS
          /\ Len(cx_out.mid) = Len(cx_in)
          /\ cx_out.data = cx_in
    /\ (cx_op = "xor_stream_twice" /\ Len(cx_pw) > 0)
       => /\ Len(cx_out.mid) = Len(cx_in)
          /\ cx_out.data = cx_in

\* a round trip through a two-character key that wraps around, on a buffer
\* the cipher really changed
C3_Witness ==
    /\ cx_op = "encrypt_decrypt"
    /\ cx_pw = <<97, 98>>
    /\ Len(cx_in) = 3
    /\ cx_out.mid # cx_in
    /\ cx_out.data = cx_in

\* C4: decrypting with a password different from the one used to encrypt
\* either signals an error or writes output that differs from the original.
C4_WrongPassword ==
    (pl.pc = "decrypted" /\ pl.dec_password # pl.password /\ pl.nomem = 0)
    => \/ pl.dec_ret # SUCCESS
       \/ pl.killed
       \/ PATH_OUT \notin DOMAIN disk
       \/ disk[PATH_OUT] # pl.plain

\* C5: with an empty password encrypt_data and decrypt_data return
\* ERROR_INVALID_PASSWORD for every input buffer and leave the output
\* buffer as it was.
C5_EmptyPassword ==
    (cx_op \in {"encrypt_data", "decrypt_data", "src_encrypt_data", "src_decrypt_data"}
     /\ cx_pw = <<>>)
    => /\ cx_out.ret1 = ERROR_INVALID_PASSWORD
       /\ cx_out.data = cx_out.buf0

\* the encryption_id of each record, in iteration order
Ids(lib, h) ==
    LET ns == Nodes(lib, h)
    IN  [i \in 1..Len(ns) |-> h[ns[i]].data.encryption_id]

\* C6: whatever calls were made, successful or failing, library.count is
\* the number of records reachable from the list head.
C6_CountMatchesList == library.count = Len(Nodes(library, heap))

C6_Witness ==
    /\ last.op = "remove_file_from_library"
    /\ last.ret = SUCCESS
    /\ library.count = 2
    /\ Len(Nodes(library, heap)) = 2

\* C7: a record inserted by encrypt_file_workflow gets the id next_id, above
\* every id assigned before, and next_id moves past it; next_id never goes
\* back; a remove drops one id and keeps the others, a rename keeps every
\* id, a sort only reorders the records; live ids are pairwise distinct and below
\* next_id.
C7_IdsMonotonic ==
    [][pc' # "exited" =>
        LET old == Ids(library, heap)
            new == Ids(library', heap')
            Removals == {"remove_file_from_library", "delete_encrypted_file"}
            Sorts == {"sort_library_by_name", "sort_library_by_date",
                      "sort_library_by_size"}
            IsReordering(a, b) ==
                /\ Len(a) = Len(b)
                /\ \A i \in 1..Len(a) :
                     Cardinality({j \in 1..Len(a) : a[j] = a[i]}) =
                     Cardinality({j \in 1..Len(b) : b[j] = a[i]})
        IN  /\ library'.next_id >= library.next_id
            /\ Cardinality({new[i] : i \in 1..Len(new)}) = Len(new)
            /\ \A i \in 1..Len(new) : new[i] < library'.next_id
            /\ last'.op = "encrypt_file_workflow" =>
                 \/ new = old /\ library'.next_id = library.next_id
                 \/ /\ new = Append(old, library.next_id)
                    /\ \A i \in 1..Len(old) : old[i] < library.next_id
                    /\ library'.next_id = library.next_id + 1
            /\ last'.op \in Removals =>
                 /\ library'.next_id = library.next_id
                 /\ \/ new = old
                    \/ new = RemoveAt(old, last'.index + 1)
            /\ last'.op = "rename_encrypted_file" =>
                 new = old /\ library'.next_id = library.next_id
            /\ last'.op \in Sorts =>
                 /\ IsReordering(Records(library, heap), Records(library', heap'))
                 /\ library'.next_id = library.next_id
    ]_vars

C7_Witness ==
    /\ last.op = "encrypt_file_workflow"
    /\ last.ret = SUCCESS
    /\ library.count = 1
    /\ Ids(library, heap) = <<2>>
    /\ library.next_id = 3

\* C8: remove_file_from_library(index) with 0 <= index < count succeeds,
\* deletes the record at that position, keeps the others in their order at
\* the indices 0..count-2, and lowers count by one.
C8_RemoveValidIndex ==
    [][(/\ last'.op = "remove_file_from_library"
        /\ last'.index >= 0
        /\ last'.index < library.count) =>
        LET kept == RemoveAt(Records(library, heap), last'.index + 1)
        IN  /\ last'.ret = SUCCESS
            /\ Records(library', heap') = kept
            /\ library'.count = library.count - 1
            /\ \A i \in 0..(library.count - 2) :
                 /\ get_library_entry(library', heap', i) # NULL
                 /\ heap'[get_library_entry(library', heap', i)].data = kept[i + 1]
            /\ get_library_entry(library', heap', library.count - 1) = NULL
    ]_vars

C8_Witness ==
    /\ last.op = "remove_file_from_library"
    /\ last.ret = SUCCESS
    /\ last.index = 1
    /\ library.count = 2
    /\ Ids(library, heap) = <<1, 3>>

C10_RenameFailureKeepsRecords ==
    [][(last'.op = "rename_encrypted_file" /\ last'.sys # 0) =>
        /\ last'.ret = ERROR_RENAME_FAILED
        /\ library' = library
        /\ heap' = heap
        /\ disk' = disk
    ]_vars

C10_Witness ==
    /\ last.op = "rename_encrypted_file"
    /\ last.sys # 0
    /\ last.ret = ERROR_RENAME_FAILED
    /\ last.index = 1
    /\ library.count = 2

\* C11: delete_encrypted_file with a valid index, when it succeeds, has
\* deleted from disk the file named by the record's encrypted_filename and
\* has removed that record from the library.
C11_DeleteRemovesArtifact ==
    [][(/\ last'.op = "delete_encrypted_file"
        /\ last'.index >= 0
        /\ last'.index < library.count
        /\ last'.ret = SUCCESS) =>
        LET rec == Records(library, heap)[last'.index + 1]
        IN  /\ rec.encrypted_filename \notin DOMAIN disk'
            /\ Records(library', heap') =
                 RemoveAt(Records(library, heap), last'.index + 1)
    ]_vars

(***************************************************************************)
(* The library store on its own: records of several files are added,       *)
(* sorted and searched, and the library is saved at exit and loaded again  *)
(* by the next process.                                                    *)
(***************************************************************************)
\* strstr(haystack, needle) != NULL
strstr(haystack, needle) ==
    \E k \in 0..(Len(haystack) - Len(needle)) :
        SubSeq(haystack, k + 1, k + Len(needle)) = needle

\* the loop of search_library_by_name: results[found++] = i
RECURSIVE search_scan(_, _, _, _, _, _)
search_scan(h, cur, i, results, search_pattern, max_results) ==
    IF cur = NULL \/ Len(results) >= max_results THEN results
    ELSE search_scan(h, h[cur].next, i + 1,
                     IF strstr(h[cur].data.original_filename, search_pattern)
                     THEN Append(results, i) ELSE results,
                     search_pattern, max_results)

\* search_library_by_name storing every match, whatever max_results is
search_library_by_name_uncapped(lib, h, search_pattern, max_results) ==
    LET results == IF max_results <= 0 THEN <<>>
                   ELSE search_scan(h, lib.head, 0, <<>>, search_pattern,
                                    MaxNodes + 1)
    IN  [found |-> Len(results), results |-> results]

search_library_by_name(lib, h, search_pattern, max_results) ==
    LET results == IF max_results <= 0 THEN <<>>
                   ELSE search_scan(h, lib.head, 0, <<>>, search_pattern,
                                    max_results)
    IN  [found |-> Len(results), results |-> results]

\* save_encryption_library: a stub that writes nothing
save_encryption_library(lib, d) == [ret |-> SUCCESS, disk |-> d]

\* load_encryption_library: a stub that reads nothing and clears the list
load_encryption_library(d) == [ret |-> SUCCESS, library |-> EmptyLibrary]

\* initialize_program after its call of load_encryption_library has returned
\* loaded: only ERROR_FILE_NOT_FOUND is turned into SUCCESS
initialize_program_from(loaded) ==
    [ret |-> IF loaded.ret = ERROR_FILE_NOT_FOUND THEN SUCCESS ELSE loaded.ret,
     library |-> loaded.library,
     heap |-> <<>>]

\* initialize_program in a new process: memset, then load_encryption_library
initialize_program(d) == initialize_program_from(load_encryption_library(d))

\* cleanup_program: the save it makes when the library is modified
cleanup_save(lib, d) ==
    IF lib.is_modified # 0 THEN save_encryption_library(lib, d)
    ELSE [ret |-> SUCCESS, disk |-> d]

\* the files whose records are added: name and size
StoreFiles ==
    {[name |-> <<97, 98>>, size |-> 100],      \* "ab"
     [name |-> <<66>>, size |-> 50],           \* "B"
     [name |-> <<97>>, size |-> 200],          \* "a"
     [name |-> <<98>>, size |-> 100]}          \* "b"

SearchPatterns == {<<>>, <<97>>, <<98>>, <<97, 98>>}

\* what encrypt_file fills in for such a file, encrypted without compression
StoreMetadata(f) ==
    [original_filename |-> safe_string_copy(f.name, MAX_FILENAME_LENGTH),
     encrypted_filename |->
         safe_string_copy(generate_encrypted_filename(f.name, MAX_FILENAME_LENGTH, 0),
                          MAX_FILENAME_LENGTH),
     original_size |-> f.size,
     encrypted_size |-> f.size,
     encryption_id |-> 0,
     encryption_method |-> ENC_XOR,
     is_compressed |-> 0]

\* found, results: what search_library_by_name returned and stored
\* saved: the records the library held when cleanup_program ran; pc is then
\* "saved" when save_encryption_library was called, "not_saved" otherwise
StIdle == [pc |-> "store", found |-> 0, results |-> <<>>, saved |-> <<>>]

StInit ==
    /\ library = EmptyLibrary
    /\ heap = <<>>
    /\ disk = <<>>
    /\ pc = "store"
    /\ last = Idle
    /\ pl = StIdle
    /\ cx_in = <<>>
    /\ cx_pw = <<>>
    /\ cx_op = "off"
    /\ cx_out = CxIdle

StAddFile ==
    /\ pc = "store"
    /\ library.next_id <= MaxId
    /\ \E f \in StoreFiles, oom \in BOOLEAN :
         LET r == assign_id_and_add(library, heap, StoreMetadata(f), oom)
         IN  /\ library' = r.library
             /\ heap' = r.heap
             /\ last' = [Idle EXCEPT !.op = "add_file_to_library", !.ret = r.ret,
                                     !.name = f.name]
    /\ pc' = "store_returned"
    /\ UNCHANGED <<disk, pl, cxVars>>

\* sys: 1 when malloc returned NULL for the array, 0 otherwise
StSorted(outcomes, op, oom) ==
    /\ \E h \in outcomes : heap' = h
    /\ last' = [Idle EXCEPT !.op = op,
                            !.sys = IF oom /\ library.count > 1 THEN 1 ELSE 0]
    /\ pc' = "store_returned"
    /\ UNCHANGED <<library, disk, pl, cxVars>>

StSortByName ==
    /\ pc = "store"
    /\ \E oom \in BOOLEAN :
         StSorted(sort_library_by_name(library, heap, oom), "sort_library_by_name", oom)

StSortByDate ==
    /\ pc = "store"
    /\ \E oom \in BOOLEAN :
         StSorted(sort_library_by_date(library, heap, oom), "sort_library_by_date", oom)

StSortBySize ==
    /\ pc = "store"
    /\ \E oom \in BOOLEAN :
         StSorted(sort_library_by_size(library, heap, oom), "sort_library_by_size", oom)

\* last.name: the pattern, last.index: max_results, last.ret: the count returned
StSearch ==
    /\ pc = "store"
    /\ \E search_pattern \in SearchPatterns, max_results \in -1..MaxNodes :
         LET r == search_library_by_name(library, heap, search_pattern, max_results)
         IN  /\ last' = [Idle EXCEPT !.op = "search_library_by_name",
                                     !.ret = r.found, !.index = max_results,
                                     !.name = search_pattern]
             /\ pl' = [StIdle EXCEPT !.found = r.found, !.results = r.results]
    /\ pc' = "store_returned"
    /\ UNCHANGED <<library, heap, disk, cxVars>>

\* the caller goes on to its next call
StNextCall ==
    /\ pc = "store_returned"
    /\ pc' = "store"
    /\ last' = Idle
    /\ pl' = StIdle
    /\ UNCHANGED <<library, heap, disk, cxVars>>

\* cleanup_program at exit; the process and its memory end
StCleanupProgram ==
    /\ pc = "store"
    /\ LET saved == cleanup_save(library, disk)
       IN  /\ disk' = saved.disk
           /\ last' = [Idle EXCEPT !.op = "cleanup_program", !.ret = saved.ret]
    /\ pl' = [StIdle EXCEPT !.pc = IF library.is_modified # 0 THEN "saved"
                                   ELSE "not_saved",
                            !.saved = Records(library, heap)]
    /\ library' = cleanup_program(library)
    /\ heap' = <<>>
    /\ pc' = "exited"
    /\ UNCHANGED cxVars

\* the next process starts: initialize_program
StInitializeProgram ==
    /\ pc = "exited"
    /\ LET r == initialize_program(disk)
       IN  /\ library' = r.library
           /\ heap' = r.heap
           /\ last' = [Idle EXCEPT !.op = "initialize_program", !.ret = r.ret]
    /\ pc' = "store_returned"
    /\ UNCHANGED <<disk, pl, cxVars>>

StNext ==
    \/ StAddFile
    \/ StSortByName
    \/ StSortByDate
    \/ StSortBySize
    \/ StSearch
    \/ StNextCall
    \/ StCleanupProgram
    \/ StInitializeProgram

SpecStore == StInit /\ [][StNext]_vars

\* the original_size of each record, in iteration order
Sizes(lib, h) ==
    LET ns == Nodes(lib, h)
    IN  [i \in 1..Len(ns) |-> h[ns[i]].data.original_size]

\* the order cmp_date and cmp_size ask for: larger first
NonIncreasing(s) == \A i \in 1..(Len(s) - 1) : s[i] >= s[i + 1]

Names(lib, h) ==
    LET ns == Nodes(lib, h)
    IN  [i \in 1..Len(ns) |-> h[ns[i]].data.original_filename]

\* tolower, for the letters A..Z
tolower(c) == IF c >= 65 /\ c <= 90 THEN c + 32 ELSE c

\* strcasecmp, the comparison the comment in cmp_name names: -1, 0 or 1
RECURSIVE strcasecmp(_, _)
strcasecmp(a, b) ==
    IF a = <<>> /\ b = <<>> THEN 0
    ELSE IF a = <<>> THEN -1
    ELSE IF b = <<>> THEN 1
    ELSE IF tolower(Head(a)) < tolower(Head(b)) THEN -1
    ELSE IF tolower(Head(a)) > tolower(Head(b)) THEN 1
    ELSE strcasecmp(Tail(a), Tail(b))

\* C13: after sort_library_by_name (with its array allocated), iterating
\* the store yields original_filename values in case-insensitive
\* non-decreasing lexicographic order.
C13_SortByNameOrder ==
    [][(last'.op = "sort_library_by_name" /\ last'.sys = 0) =>
        LET names == Names(library', heap')
        IN  \A i \in 1..(Len(names) - 1) : strcasecmp(names[i], names[i + 1]) <= 0
    ]_vars

C15_SaveLoadRoundTrip ==
    (last.op = "initialize_program" /\ pl.pc = "saved") =>
        /\ last.ret = SUCCESS
        /\ Records(library, heap) = pl.saved
        /\ library.count = Len(pl.saved)

\* C16: no two records of the library have the same encrypted_filename.
C16_UniqueEncryptedFilename ==
    LET recs == Records(library, heap)
    IN  \A i, j \in 1..Len(recs) :
            i # j => recs[i].encrypted_filename # recs[j].encrypted_filename

(***************************************************************************)
(* The run-length coders on inputs with long runs: compress_data /         *)
(* decompress_data, and rle_compress / rle_decompress of the single-file   *)
(* tool, where a count byte of 0 stands for 256.                           *)
(***************************************************************************)
\* while (i + run < in_len && in[i + run] == v && run < 256) run++;
rle_run(in, i, run) ==
    LET goes_on(r) == i + r <= Len(in) /\ in[i + r] = in[i] /\ r < 256
    IN  CHOOSE r \in run..256 :
            ~goes_on(r) /\ \A e \in run..(r - 1) : goes_on(e)

\* the (count, value) pairs rle_compress emits from 1-based position i on
RECURSIVE rle_pairs(_, _)
rle_pairs(in, i) ==
    IF i > Len(in) THEN <<>>
    ELSE LET run == rle_run(in, i, 1)
         IN  <<IF run = 256 THEN 0 ELSE run, in[i]>> \o rle_pairs(in, i + run)

\* null: the function returned NULL (in_len == 0, or malloc failed)
rle_compress(in, oom) ==
    IF Len(in) = 0 \/ oom THEN [null |-> TRUE, out |-> <<>>]
    ELSE [null |-> FALSE, out |-> rle_pairs(in, 1)]

\* while (i + 1 <= in_len - 1): a last byte without a value is not read
RECURSIVE rle_expand(_, _)
rle_expand(in, i) ==
    IF i + 1 > Len(in) THEN <<>>
    ELSE Repeat(in[i + 1], IF in[i] = 0 THEN 256 ELSE in[i]) \o rle_expand(in, i + 2)

\* oom: malloc or realloc returned NULL
rle_decompress(in, oom) ==
    IF Len(in) = 0 \/ oom THEN [null |-> TRUE, out |-> <<>>]
    ELSE [null |-> FALSE, out |-> rle_expand(in, 1)]

MaxRuns == 2        \* most runs an input of the run-length harness is built from

RunValues == {97, 98}
RunLengths == {1, 2, 255, 256, 257}

RECURSIVE Flatten(_)
Flatten(runs) ==
    IF runs = <<>> THEN <<>>
    ELSE Repeat(runs[1][1], runs[1][2]) \o Flatten(Tail(runs))

AAAABBBCCD == <<97, 97, 97, 97, 98, 98, 98, 99, 99, 100>>

RunInputs ==
    {Flatten(runs) : runs \in SeqsUpTo(RunValues \X RunLengths, MaxRuns)}
        \cup {AAAABBBCCD}

RleInit ==
    /\ cx_in \in RunInputs
    /\ cx_pw = <<>>
    /\ cx_op = "none"
    /\ cx_out = CxIdle
    /\ library = EmptyLibrary
    /\ heap = <<>>
    /\ disk = <<>>
    /\ pc = "off"
    /\ last = Idle
    /\ pl = PlIdle

\* compress_data, then decompress_data on the bytes it wrote, whatever
\* compress_data returned
CompressDataThenDecode ==
    /\ cx_op = "none"
    /\ \E undef \in UndefinedReturn, stray \in StrayBytes :
         LET c == compress_data(cx_in, undef)
             d == decompress_data(c.data, stray)
         IN  cx_out' = [CxIdle EXCEPT !.ret1 = c.ret, !.ret2 = d.ret,
                                      !.mid = c.data, !.data = d.data]
    /\ cx_op' = "compress_data_decode"
    /\ UNCHANGED <<cx_in, cx_pw, library, heap, disk, pc, last, pl>>

\* rle_compress, then rle_decompress on its result; ret1, ret2: 0 for a
\* buffer, 1 for NULL
RleCompressThenDecompress ==
    /\ cx_op = "none"
    /\ \E oom1, oom2 \in BOOLEAN :
         LET c == rle_compress(cx_in, oom1)
             d == rle_decompress(c.out, oom2)
         IN  cx_out' = IF c.null
                       THEN [CxIdle EXCEPT !.ret1 = 1, !.ret2 = 1]
                       ELSE [CxIdle EXCEPT !.ret2 = IF d.null THEN 1 ELSE 0,
                                           !.mid = c.out, !.data = d.out]
    /\ cx_op' = "rle_compress_decompress"
    /\ UNCHANGED <<cx_in, cx_pw, library, heap, disk, pc, last, pl>>

\* decompress_data called on the input as the stream to decode (streams of
\* up to MaxLen bytes)
DecompressData ==
    /\ cx_op = "none"
    /\ Len(cx_in) <= MaxLen
    /\ \E stray \in StrayBytes :
         LET d == decompress_data(cx_in, stray)
         IN  cx_out' = [ret1 |-> d.ret, ret2 |-> 0, mid |-> <<>>, data |-> d.data,
                        buf0 |-> <<>>, read_past_end |-> d.read_past_end]
    /\ cx_op' = "decompress_data"
    /\ UNCHANGED <<cx_in, cx_pw, library, heap, disk, pc, last, pl>>

\* rle_decompress called on the input as the stream to decode; ret1: 0 for
\* a buffer, 1 for NULL; its loop reads in[i] and in[i + 1] only while
\* i + 1 <= in_len - 1
RleDecompress ==
    /\ cx_op = "none"
    /\ Len(cx_in) <= MaxLen
    /\ \E oom \in BOOLEAN :
         LET d == rle_decompress(cx_in, oom)
         IN  cx_out' = [ret1 |-> IF d.null THEN 1 ELSE 0, ret2 |-> 0, mid |-> <<>>,
                        data |-> d.out, buf0 |-> <<>>, read_past_end |-> FALSE]
    /\ cx_op' = "rle_decompress"
    /\ UNCHANGED <<cx_in, cx_pw, library, heap, disk, pc, last, pl>>

RleNext ==
    \/ CompressDataThenDecode
    \/ RleCompressThenDecompress
    \/ DecompressData
    \/ RleDecompress

SpecRle == RleInit /\ [][RleNext]_vars

\* C17: when compress_data emits (count, value) pairs (its output is
\* shorter than the input), decompress_data gives the input back, every
\* count is in 1..255 and the counts add up to the input length; when
\* rle_compress returns pairs (non-empty input), rle_decompress gives the
\* input back and the counts (0 read as 256) add up to the input length.
\* An input that is one run of n equal bytes becomes ceil(n / max) pairs
\* of that byte.  "aaaabbbccd" is decoded back to its 10 bytes.
C17_PairsDecodeBack ==
    LET pairs == cx_out.mid
        n == Len(cx_in)
        Count(k, zero) == IF pairs[2 * k - 1] = 0 THEN zero ELSE pairs[2 * k - 1]
        Sum(zero) ==
            LET RECURSIVE upto(_)
                upto(k) == IF k = 0 THEN 0 ELSE Count(k, zero) + upto(k - 1)
            IN  upto(Len(pairs) \div 2)
        one_run == n > 0 /\ \A i \in 1..n : cx_in[i] = cx_in[1]
        SplitInto(max) ==
            one_run =>
                /\ Len(pairs) \div 2 = (n + max - 1) \div max
                /\ \A k \in 1..(Len(pairs) \div 2) : pairs[2 * k] = cx_in[1]
    IN  /\ (cx_op = "compress_data_decode" /\ Len(pairs) < n) =>
            /\ cx_out.ret2 = SUCCESS
            /\ cx_out.data = cx_in
            /\ Len(pairs) % 2 = 0
            /\ \A k \in 1..(Len(pairs) \div 2) : Count(k, 0) \in 1..255
            /\ Sum(0) = n
            /\ SplitInto(255)
        /\ (cx_op = "rle_compress_decompress" /\ cx_out.ret1 = 0) =>
            /\ Len(pairs) % 2 = 0
            /\ \A k \in 1..(Len(pairs) \div 2) : pairs[2 * k - 1] \in 0..255
            /\ Sum(256) = n
            /\ SplitInto(256)
            /\ cx_out.ret2 = 0 => cx_out.data = cx_in
        /\ (cx_op = "compress_data_decode" /\ cx_in = AAAABBBCCD) =>
            /\ Len(pairs) < n
            /\ cx_out.data = AAAABBBCCD

C17_Witness ==
    /\ cx_op = "compress_data_decode"
    /\ cx_in = Repeat(97, 257)
    /\ cx_out.mid = <<255, 97, 2, 97>>
    /\ cx_out.data = cx_in

(***************************************************************************)
(* The single-file tool: main in mode 'c' (compress, encrypt, write the    *)
(* header and the payload) and in mode 'd' (check the header, decrypt,     *)
(* decompress, write the output).  A file is [exists, bytes].  fault names *)
(* the library call that fails in the run by the exit code main gives it   *)
(* (0: none): 2 fopen of the input, 3 fseek/ftell, 4 malloc of the read    *)
(* buffer, 5 fread, 6 malloc in rle_compress, 7 and 14 fopen of the        *)
(* output, 8, 9 and 15 fwrite, 12 allocation in rle_decompress, 13 malloc  *)
(* of the copy.  A failed fwrite is taken to have written nothing.         *)
(***************************************************************************)
FLAG_COMPRESSED == 1

MAGIC == <<67, 67, 82, 89>>       \* 'C' 'C' 'R' 'Y'

MSG_TOO_SMALL == "Input too small"
MSG_BAD_FORMAT == "Bad file format"
MSG_WARNING == "Warning: password does not match header-derived seed; output may be garbage"

NoFile == [exists |-> FALSE, bytes |-> <<>>]
File(b) == [exists |-> TRUE, bytes |-> b]

\* header[5..8]: the seed stored little-endian
seed_bytes(seed) ==
    <<seed.lo % 256, seed.lo \div 256, seed.hi % 256, seed.hi \div 256>>

\* buf[5] | buf[6] << 8 | buf[7] << 16 | buf[8] << 24 (buf is 1-based here)
header_seed(buf) == U32(buf[8] + 256 * buf[9], buf[6] + 256 * buf[7])

\* a magic check that looks at the first byte only
bad_magic_first_byte(buf) == buf[1] # MAGIC[1]

\* buf[0] != MAGIC0 || buf[1] != MAGIC1 || buf[2] != MAGIC2 || buf[3] != MAGIC3
bad_magic(buf) == \E k \in 1..4 : buf[k] # MAGIC[k]

ToolExit(code, err, out, file) ==
    [ret |-> code, stderr |-> err, stdout |-> out, out |-> file]

\* main, mode 'c', once the input is in buf
tool_encrypt(buf, password, do_compress, fault, out) ==
    LET comp == rle_compress(buf, fault = 6)
        payload == IF do_compress THEN comp.out ELSE buf
        seed == derive_seed(password)
        header == MAGIC \o <<IF do_compress THEN FLAG_COMPRESSED ELSE 0>>
                        \o seed_bytes(seed)
    IN  IF do_compress /\ comp.null THEN ToolExit(6, <<"Compress failed">>, <<>>, out)
        ELSE IF fault = 7 THEN ToolExit(7, <<"Failed open output">>, <<>>, out)
        ELSE IF fault = 8 THEN ToolExit(8, <<"Write failed">>, <<>>, File(<<>>))
        ELSE IF fault = 9 /\ Len(payload) > 0
             THEN ToolExit(9, <<"Write failed">>, <<>>, File(header))
        ELSE ToolExit(0, <<>>, <<"Wrote">>,
                      File(header \o xor_stream(payload, seed)))

\* main, mode 'd', once the input is in buf
\* the decoder keyed by the seed it derives from the password given,
\* not by the seed stored in the header
tool_decrypt_password_seed(buf, password, fault, out) ==
    IF Len(buf) < 9 THEN ToolExit(10, <<MSG_TOO_SMALL>>, <<>>, out)
    ELSE IF bad_magic(buf) THEN ToolExit(11, <<MSG_BAD_FORMAT>>, <<>>, out)
    ELSE
      LET flags == buf[5]
          seed == header_seed(buf)
          payload == xor_stream(SubSeq(buf, 10, Len(buf)), derive_seed(password))
          warn == IF derive_seed(password) # seed THEN <<MSG_WARNING>> ELSE <<>>
          compressed == (flags % 2) = 1
          dec == rle_decompress(payload, fault = 12)
          outbuf == IF compressed THEN dec.out ELSE payload
      IN  IF compressed /\ dec.null /\ Len(payload) > 0
          THEN ToolExit(12, warn \o <<"Decompress failed">>, <<>>, out)
          ELSE IF ~compressed /\ fault = 13 /\ Len(payload) > 0
          THEN ToolExit(13, warn \o <<"Out of memory">>, <<>>, out)
          ELSE IF fault = 14
          THEN ToolExit(14, warn \o <<"Failed open output">>, <<>>, out)
          ELSE IF fault = 15 /\ Len(outbuf) > 0
          THEN ToolExit(15, warn \o <<"Write failed">>, <<>>, File(<<>>))
          ELSE ToolExit(0, warn, <<"Wrote">>, File(outbuf))

\* mode 'd': the header is checked, the payload is XORed with the stream of
\* the seed stored in the header, and decoded when the flag is set
tool_decrypt(buf, password, fault, out) ==
    IF Len(buf) < 9 THEN ToolExit(10, <<MSG_TOO_SMALL>>, <<>>, out)
    ELSE IF bad_magic(buf) THEN ToolExit(11, <<MSG_BAD_FORMAT>>, <<>>, out)
    ELSE
      LET flags == buf[5]
          seed == header_seed(buf)
          payload == xor_stream(SubSeq(buf, 10, Len(buf)), seed)
          warn == IF derive_seed(password) # seed THEN <<MSG_WARNING>> ELSE <<>>
          compressed == (flags % 2) = 1
          dec == rle_decompress(payload, fault = 12)
          outbuf == IF compressed THEN dec.out ELSE payload
      IN  IF compressed /\ dec.null /\ Len(payload) > 0
          THEN ToolExit(12, warn \o <<"Decompress failed">>, <<>>, out)
          ELSE IF ~compressed /\ fault = 13 /\ Len(payload) > 0
          THEN ToolExit(13, warn \o <<"Out of memory">>, <<>>, out)
          ELSE IF fault = 14
          THEN ToolExit(14, warn \o <<"Failed open output">>, <<>>, out)
          ELSE IF fault = 15 /\ Len(outbuf) > 0
          THEN ToolExit(15, warn \o <<"Write failed">>, <<>>, File(<<>>))
          ELSE ToolExit(0, warn, <<"Wrote">>, File(outbuf))

\* main: read the whole input file, then the branch of the mode
tool_main(mode, input, output, password, do_compress, fault) ==
    IF ~input.exists \/ fault = 2 THEN ToolExit(2, <<"Failed to open input">>, <<>>, output)
    ELSE IF fault = 3 THEN ToolExit(3, <<>>, <<>>, output)
    ELSE IF fault = 4 THEN ToolExit(4, <<"Out of memory">>, <<>>, output)
    ELSE IF fault = 5 /\ Len(input.bytes) > 0
    THEN ToolExit(5, <<"Failed read">>, <<>>, output)
    ELSE IF mode = "c"
    THEN tool_encrypt(input.bytes, password, do_compress, fault, output)
    ELSE tool_decrypt(input.bytes, password, fault, output)

ToolPasswords == {<<>>, <<97>>, <<97, 98>>}
EncryptFaults == {0, 2, 3, 4, 5, 6, 7, 8, 9}
DecryptFaults == {0, 2, 3, 4, 5, 12, 13, 14, 15}

\* the files handed to mode 'd': the artifact, each prefix of it, the
\* artifact with one byte of the magic changed, the plain file, no file
DecryptInputs(art, plain) ==
    {art, NoFile, File(plain)}
        \cup {File(SubSeq(art.bytes, 1, n)) : n \in 0..Len(art.bytes)}
        \cup {File([art.bytes EXCEPT ![k] = 0]) :
                k \in {j \in 1..4 : j <= Len(art.bytes)}}

ToolResult(mode, input, before, password, fault, r) ==
    [mode |-> mode, input |-> input, before |-> before, password |-> password,
     fault |-> fault, ret |-> r.ret, stderr |-> r.stderr, stdout |-> r.stdout,
     out |-> r.out]

\* pl.art: the artifact file left by the run in mode 'c'
\* no run made yet
ToolNotRun ==
    [mode |-> "none", input |-> NoFile, before |-> NoFile, password |-> <<>>,
     fault |-> 0, ret |-> 0, stderr |-> <<>>, stdout |-> <<>>, out |-> NoFile]

ToolInit ==
    /\ cx_in \in {<<>>, <<97>>, <<97, 98>>, <<97, 97, 97>>}
    /\ cx_pw \in ToolPasswords
    /\ cx_op = "none"
    /\ cx_out = [mode |-> "none", input |-> NoFile, before |-> NoFile,
                 password |-> <<>>, fault |-> 0, ret |-> 0, stderr |-> <<>>,
                 stdout |-> <<>>, out |-> NoFile]
    /\ pl = [pc |-> "tool", art |-> NoFile, again |-> ToolNotRun]
    /\ library = EmptyLibrary
    /\ heap = <<>>
    /\ disk = <<>>
    /\ pc = "off"
    /\ last = Idle

\* tool c input artifact password [--compress]
ToolEncrypt ==
    /\ pl.pc = "tool"
    /\ ~pl.art.exists
    /\ \E do_compress \in BOOLEAN, fault \in EncryptFaults :
         LET r == tool_main("c", File(cx_in), pl.art, cx_pw, do_compress, fault)
         IN  /\ cx_out' = ToolResult("c", File(cx_in), pl.art, cx_pw, fault, r)
             /\ pl' = [pl EXCEPT !.art = r.out, !.again = ToolNotRun]
    /\ cx_op' = "tool_c"
    /\ UNCHANGED <<cx_in, cx_pw, library, heap, disk, pc, last>>

\* tool d input output password, the output path holding a file or not;
\* one run in mode 'd' is followed in a behaviour
ToolDecrypt ==
    /\ pl.pc = "tool"
    /\ cx_op \notin {"tool_d", "tool_dd"}
    /\ \E input \in DecryptInputs(pl.art, cx_in), password \in ToolPasswords,
          before \in {NoFile, File(<<120>>)}, fault \in DecryptFaults :
         LET r == tool_main("d", input, before, password, FALSE, fault)
         IN  cx_out' = ToolResult("d", input, before, password, fault, r)
    /\ cx_op' = "tool_d"
    /\ UNCHANGED <<cx_in, cx_pw, pl, library, heap, disk, pc, last>>

\* the run in mode 'd' made once more: same input file, same output path,
\* same faults of the system, any password; pl.again is what it returns
ToolDecryptAgain ==
    /\ pl.pc = "tool"
    /\ cx_op = "tool_d"
    /\ \E password \in ToolPasswords :
         LET r == tool_main("d", cx_out.input, cx_out.before, password, FALSE,
                            cx_out.fault)
         IN  pl' = [pl EXCEPT !.again = ToolResult("d", cx_out.input, cx_out.before,
                                                   password, cx_out.fault, r)]
    /\ cx_op' = "tool_dd"
    /\ UNCHANGED <<cx_in, cx_pw, cx_out, library, heap, disk, pc, last>>

ToolNext ==
    \/ ToolEncrypt
    \/ ToolDecrypt
    \/ ToolDecryptAgain

SpecTool == ToolInit /\ [][ToolNext]_vars

\* C18: a run in mode 'd' that has read its input file ends with exit code
\* 10 and the single message "Input too small" when the file has fewer
\* than 9 bytes, and with exit code 11 and the single message "Bad file
\* format" when it has at least 9 bytes and its first four are not 'CCRY';
\* in both cases the output file is left as it was (not created, not
\* truncated) and the password warning is not printed.  A run that prints
\* the password warning ends with neither of these two exit codes.
C18_HeaderRejected ==
    LET r == cx_out
        buf == r.input.bytes
        read == r.ret \notin {2, 3, 4, 5}
        Warned == \E k \in 1..Len(r.stderr) : r.stderr[k] = MSG_WARNING
    IN  (cx_op = "tool_d" /\ read) =>
            /\ Len(buf) < 9 =>
                   /\ r.ret = 10
                   /\ r.stderr = <<MSG_TOO_SMALL>>
                   /\ r.out = r.before
                   /\ r.stdout = <<>>
            /\ (Len(buf) >= 9 /\ SubSeq(buf, 1, 4) # MAGIC) =>
                   /\ r.ret = 11
                   /\ r.stderr = <<MSG_BAD_FORMAT>>
                   /\ r.out = r.before
                   /\ r.stdout = <<>>
            /\ Warned => r.ret \notin {10, 11}
            /\ MSG_TOO_SMALL # MSG_BAD_FORMAT
            /\ MSG_WARNING \notin {MSG_TOO_SMALL, MSG_BAD_FORMAT}

C18_Witness ==
    /\ cx_op = "tool_d"
    /\ cx_out.ret = 11
    /\ cx_out.before = File(<<120>>)
    /\ cx_out.input.bytes[1] = 67
    /\ Len(cx_out.input.bytes) > 9

\* C19: after encrypt_file has succeeded with use_compression set, the
\* metadata's is_compressed is non-zero only if the artifact holds the
\* encrypted run-length encoding of the input, and is zero when
\* compress_data stored the input verbatim (encoding not smaller than the
\* input).
C19_FlagRecordsRepresentation ==
    (pl.pc = "encrypted" /\ pl.use_compression = 1) =>
        LET pairs == compress_pairs(pl.plain, 1)
            written == disk[PATH_A_CCRYPT]
            Encrypted(b) == encrypt_data(b, pl.password, Repeat(0, Len(b))).output_data
        IN  /\ pl.metadata.is_compressed # 0 => written = Encrypted(pairs)
            /\ Len(pairs) >= Len(pl.plain) => pl.metadata.is_compressed = 0

(***************************************************************************)
(* encrypt_file and encrypt_file_workflow of src/encryption.c.  The values *)
(* compress_data and encrypt_data return are not looked at by encrypt_file;*)
(* they are reported here as comp_ret and cipher_ret (SUCCESS for a step   *)
(* that is not run).  stale is the byte that fills the buffer malloc gives *)
(* for encrypted_data; nomem is 1 when the malloc of input_data fails and  *)
(* 3 when the malloc of encrypted_data fails; the unchecked malloc of      *)
(* processed_data is taken to succeed.                                     *)
(***************************************************************************)
ENC_AES == 1
CCRYPT_ENC_XOR == 2     \* ENC_XOR as src/ccrypt.h numbers it
ENC_CAESAR == 3

\* compress_data of src/encryption.c: every path has its return;
\* output_data is what the output buffer held before the call
src_compress_data(input_data, output_data) ==
    IF Len(input_data) <= 0
    THEN [ret |-> ERROR_INVALID_PATH, data |-> output_data]
    ELSE LET pairs == compress_pairs(input_data, 1)
         IN  [ret |-> SUCCESS,
              data |-> IF Len(pairs) >= Len(input_data) THEN input_data ELSE pairs]

\* encrypt_file from the malloc of encrypted_data on; c: what the
\* compression step returned and left in processed_data, e: the same for
\* the cipher step
src_encrypt_file_steps(d, input_path, output_path, use_compression, method, nomem, c, e) ==
    LET error(code) == [ret |-> code, disk |-> d, metadata |-> NoMetadata,
                        comp_ret |-> c.ret, cipher_ret |-> SUCCESS]
    IN  IF nomem = 3 THEN error(ERROR_MEMORY_ALLOCATION)
        ELSE IF method \notin {ENC_AES, CCRYPT_ENC_XOR, ENC_CAESAR}
        THEN error(ERROR_INVALID_PATH)
        ELSE [ret |-> SUCCESS,
              disk |-> fs_write(d, output_path, e.output_data),
              metadata |->
                [original_filename |-> safe_string_copy(input_path, MAX_FILENAME_LENGTH),
                 encrypted_filename |-> safe_string_copy(output_path, MAX_FILENAME_LENGTH),
                 original_size |-> Len(d[input_path]),
                 encrypted_size |-> Len(c.data),
                 encryption_id |-> 0,
                 encryption_method |-> method,
                 is_compressed |-> use_compression],
              comp_ret |-> c.ret,
              cipher_ret |-> e.ret]

\* processed_size stays input_size when compress_data fails, and the
\* buffers are written to the file whatever the two steps returned
src_encrypt_file(d, input_path, output_path, password, use_compression, method, nomem, stale) ==
    LET none(code) == [ret |-> code, disk |-> d, metadata |-> NoMetadata,
                       comp_ret |-> SUCCESS, cipher_ret |-> SUCCESS]
        input_data == d[input_path]
        c == IF use_compression # 0
             THEN src_compress_data(input_data, Repeat(stale, Len(input_data)))
             ELSE [ret |-> SUCCESS, data |-> input_data]
        e == IF method = CCRYPT_ENC_XOR
             THEN src_encrypt_data(c.data, password, Repeat(stale, Len(c.data)))
             ELSE [ret |-> SUCCESS, output_data |-> c.data]
    IN  IF input_path \notin DOMAIN d THEN none(ERROR_FILE_NOT_FOUND)
        ELSE IF nomem = 1 THEN none(ERROR_MEMORY_ALLOCATION)
        ELSE src_encrypt_file_steps(d, input_path, output_path, use_compression,
                                    method, nomem, c, e)

\* encrypt_file_workflow once encrypt_file has returned enc; added: what
\* the id assignment and add_file_to_library give
src_workflow_tail(lib, h, enc, added) ==
    IF enc.ret # SUCCESS
    THEN [ret |-> enc.ret, library |-> lib, heap |-> h, disk |-> enc.disk,
          called |-> TRUE, enc_ret |-> enc.ret, comp_ret |-> enc.comp_ret,
          cipher_ret |-> enc.cipher_ret]
    ELSE [ret |-> added.ret, library |-> added.library, heap |-> added.heap,
          disk |-> enc.disk, called |-> TRUE, enc_ret |-> enc.ret,
          comp_ret |-> enc.comp_ret, cipher_ret |-> enc.cipher_ret]

\* called: encrypt_file was reached
src_encrypt_file_workflow(lib, h, d, path_line, method, use_compression, pw_line, nomem, stale, oom) ==
    LET early(code) ==
            [ret |-> code, library |-> lib, heap |-> h, disk |-> d,
             called |-> FALSE, enc_ret |-> SUCCESS, comp_ret |-> SUCCESS,
             cipher_ret |-> SUCCESS]
        enc == src_encrypt_file(d, path_line.text,
                   generate_encrypted_filename(path_line.text, MAX_FILENAME_LENGTH,
                                               lib.next_id),
                   pw_line.text, use_compression, method, nomem, stale)
    IN  IF get_file_path_from_user(d, path_line) # SUCCESS
        THEN early(get_file_path_from_user(d, path_line))
        ELSE IF pw_line.eof THEN early(ERROR_INVALID_PASSWORD)
        ELSE src_workflow_tail(lib, h, enc,
                               assign_id_and_add(lib, h, enc.metadata, oom))

SrcIdle ==
    [pc |-> "menu", called |-> FALSE, enc_ret |-> 0, comp_ret |-> 0,
     cipher_ret |-> 0]

SrcInit ==
    /\ \E content \in SeqsUpTo(DataBytes, MaxLen) : disk = (PATH_A :> content)
    /\ library = EmptyLibrary
    /\ heap = <<>>
    /\ pc = "off"
    /\ last = Idle
    /\ pl = SrcIdle
    /\ cx_in = <<>>
    /\ cx_pw = <<>>
    /\ cx_op = "off"
    /\ cx_out = CxIdle

\* encrypt_file_workflow called on the empty library, no artifact written
\* yet
SrcEncryptFileWorkflow ==
    /\ pl.pc = "menu"
    /\ library.count = 0
    /\ DOMAIN disk = {PATH_A}
    /\ \E path_line \in PathLines :
       \E method \in AfterPath(path_line, {ENC_AES, CCRYPT_ENC_XOR, ENC_CAESAR}),
          use_compression \in AfterPath(path_line, {0, 1}),
          pw_line \in AfterPath(path_line,
                        {Line(p) : p \in Passwords} \cup {EndOfInput}),
          nomem \in AfterPath(path_line, {0, 1, 3}),
          stale \in AfterPath(path_line, StrayBytes),
          oom \in AfterPath(path_line, BOOLEAN) :
         LET r == src_encrypt_file_workflow(library, heap, disk, path_line,
                        method, use_compression, pw_line, nomem, stale, oom)
         IN  /\ library' = r.library
             /\ heap' = r.heap
             /\ disk' = r.disk
             /\ last' = [Idle EXCEPT !.op = "encrypt_file_workflow",
                                     !.ret = r.ret, !.name = path_line.text]
             /\ pl' = [pc |-> "returned", called |-> r.called,
                       enc_ret |-> r.enc_ret, comp_ret |-> r.comp_ret,
                       cipher_ret |-> r.cipher_ret]
    /\ UNCHANGED <<pc, cxVars>>

\* back in the menu after the workflow has returned
SrcNextCommand ==
    /\ pl.pc = "returned"
    /\ pl' = SrcIdle
    /\ last' = Idle
    /\ UNCHANGED <<library, heap, disk, pc, cxVars>>

SrcNext ==
    \/ SrcEncryptFileWorkflow
    \/ SrcNextCommand

SpecSrcEncrypt == SrcInit /\ [][SrcNext]_vars

\* C20: when, in a call of encrypt_file made by encrypt_file_workflow,
\* compress_data or encrypt_data fails (encrypt_data fails for the empty
\* password), encrypt_file returns the first of these errors and the
\* workflow returns with the library as it was: no record inserted, count,
\* next_id and is_modified unchanged.
C20_FailureAborts ==
    [][(/\ pl.pc = "menu"
        /\ pl'.pc = "returned"
        /\ pl'.called
        /\ pl'.comp_ret # SUCCESS \/ pl'.cipher_ret # SUCCESS)
       => /\ pl'.enc_ret = IF pl'.comp_ret # SUCCESS THEN pl'.comp_ret
                           ELSE pl'.cipher_ret
          /\ last'.ret = pl'.enc_ret
          /\ library' = library
          /\ heap' = heap]_vars

(***************************************************************************)
(* The password buffer of encrypt_file_workflow and decrypt_file_workflow: *)
(* char password[MAX_PASSWORD_LENGTH] on the stack, as it is left when the *)
(* function returns.  stale is the byte the stack held where fgets did not *)
(* write.                                                                  *)
(***************************************************************************)
MAX_PASSWORD_LENGTH == 64

\* fgets, then the newline replaced by NUL: the text, its NUL, then what
\* the buffer held before
fgets_password(text, stale) ==
    text \o <<0>> \o Repeat(stale, MAX_PASSWORD_LENGTH - Len(text) - 1)

secure_memory_clear(data, size) ==
    [k \in 1..Len(data) |-> IF k <= size THEN 0 ELSE data[k]]

\* read: fgets has stored a password; buffer: the bytes at the return
encrypt_file_workflow_password(lib, d, path_line, use_compression, pw_line, undef, nomem, stale) ==
    LET enc == encrypt_file(d, path_line.text,
                   generate_encrypted_filename(path_line.text, MAX_FILENAME_LENGTH,
                                               lib.next_id),
                   pw_line.text, use_compression, ENC_XOR, undef, nomem)
    IN  IF get_file_path_from_user(d, path_line) # SUCCESS \/ pw_line.eof
        THEN [read |-> FALSE, buffer |-> Repeat(stale, MAX_PASSWORD_LENGTH)]
        ELSE IF enc.ret # SUCCESS
        THEN [read |-> TRUE, buffer |-> fgets_password(pw_line.text, stale)]
        ELSE [read |-> TRUE,
              buffer |-> secure_memory_clear(fgets_password(pw_line.text, stale),
                                             MAX_PASSWORD_LENGTH)]

decrypt_file_workflow_password(d, path_line, pw_line, stale) ==
    IF path_line.eof \/ validate_file_path(d, path_line.text) # SUCCESS \/ pw_line.eof
    THEN [read |-> FALSE, buffer |-> Repeat(stale, MAX_PASSWORD_LENGTH)]
    ELSE [read |-> TRUE,
          buffer |-> secure_memory_clear(fgets_password(pw_line.text, stale),
                                         MAX_PASSWORD_LENGTH)]

PwIdle == [pc |-> "menu", op |-> "none", read |-> FALSE, buffer |-> <<>>]

PwInit ==
    /\ \E content \in SeqsUpTo(DataBytes, MaxLen) : disk = (PATH_A :> content)
    /\ library = EmptyLibrary
    /\ heap = <<>>
    /\ pc = "off"
    /\ last = Idle
    /\ pl = PwIdle
    /\ cx_in = <<>>
    /\ cx_pw = <<>>
    /\ cx_op = "off"
    /\ cx_out = CxIdle

\* what the workflow returned, and its password buffer at the return
PwReturned(r, p, op) ==
    /\ library' = r.library
    /\ heap' = r.heap
    /\ disk' = r.disk
    /\ last' = [Idle EXCEPT !.op = op, !.ret = r.ret]
    /\ pl' = [pc |-> "returned", op |-> op, read |-> p.read, buffer |-> p.buffer]
    /\ UNCHANGED <<pc, cxVars>>

PwEncryptFileWorkflow ==
    /\ pl.pc = "menu"
    /\ library.count = 0
    /\ \E path_line \in PathLines :
       \E use_compression \in AfterPath(path_line, {0, 1}),
          pw_line \in AfterPath(path_line, PasswordLines),
          nomem \in AfterPath(path_line, 0..3),
          oom \in AfterPath(path_line, BOOLEAN),
          stale \in StrayBytes :
       \E undef \in IF use_compression = 1 THEN UndefinedReturn ELSE {0} :
         PwReturned(encrypt_file_workflow(library, heap, disk, path_line,
                        use_compression, pw_line, undef, nomem, oom),
                    encrypt_file_workflow_password(library, disk, path_line,
                        use_compression, pw_line, undef, nomem, stale),
                    "encrypt_file_workflow")

PwDecryptFileWorkflow ==
    /\ pl.pc = "menu"
    /\ \E path_line \in PathLines, pw_line \in PasswordLines, nomem \in 0..3,
          stale \in StrayBytes :
         PwReturned(decrypt_file_workflow(library, heap, disk, path_line, pw_line,
                                          nomem),
                    decrypt_file_workflow_password(disk, path_line, pw_line, stale),
                    "decrypt_file_workflow")

PwNextCommand ==
    /\ pl.pc = "returned"
    /\ pl' = PwIdle
    /\ last' = Idle
    /\ UNCHANGED <<library, heap, disk, pc, cxVars>>

PwNext ==
    \/ PwEncryptFileWorkflow
    \/ PwDecryptFileWorkflow
    \/ PwNextCommand

SpecPassword == PwInit /\ [][PwNext]_vars

\* C21: when encrypt_file_workflow or decrypt_file_workflow returns after
\* its fgets has read the password, every byte of the password buffer is 0,
\* whatever the function returns.
C21_PasswordCleared ==
    (pl.pc = "returned" /\ pl.read) =>
        \A k \in 1..MAX_PASSWORD_LENGTH : pl.buffer[k] = 0

\* C22: after rename_encrypted_file has returned SUCCESS, the bytes that
\* were stored under the record's previous encrypted_filename are stored
\* under new_name, and the record's encrypted_filename is new_name.
C22_RenameMovesArtifact ==
    [][(/\ last'.op = "rename_encrypted_file"
        /\ last'.ret = SUCCESS) =>
        LET old == Records(library, heap)[last'.index + 1]
            new == Records(library', heap')[last'.index + 1]
        IN  /\ new.encrypted_filename = last'.name
            /\ old.encrypted_filename \in DOMAIN disk =>
                 /\ last'.name \in DOMAIN disk'
                 /\ disk'[last'.name] = disk[old.encrypted_filename]
    ]_vars

\* C23: after every successful add (through encrypt_file_workflow), remove,
\* delete and rename, and after every sort that changed the order of the
\* records, is_modified is 1.
C23_MutationLeavesDirty ==
    [][(\/ /\ last'.op \in {"encrypt_file_workflow", "remove_file_from_library",
                            "delete_encrypted_file", "rename_encrypted_file"}
           /\ last'.ret = SUCCESS
        \/ /\ last'.op \in {"sort_library_by_name", "sort_library_by_date",
                            "sort_library_by_size"}
           /\ Records(library', heap') # Records(library, heap))
       => library'.is_modified = 1]_vars

C23_Witness ==
    /\ last.op = "sort_library_by_size"
    /\ library.count = 2
    /\ Records(library, heap)[1].encryption_id = 2
    /\ library.is_modified = 1

\* C24: decompress_data and rle_decompress, given a stream with an odd
\* number of bytes, report an error (a return code other than SUCCESS, a
\* NULL result) and read no byte past the end of the stream.
C24_OddStreamRejected ==
    (cx_op \in {"decompress_data", "rle_decompress"} /\ Len(cx_in) % 2 = 1) =>
        /\ cx_out.ret1 # 0
        /\ ~cx_out.read_past_end

\* C25: decrypt_file never makes decompress_data write more than the
\* 2 * original_size bytes allocated for the decompressed data, whatever
\* the artifact holds and whatever the password is.
C25_NoOverflowInDecrypt ==
    pl.pc = "decrypted" => ~pl.overflow

(***************************************************************************)
(* Menu harness: main, main_menu_loop and file_management_menu reading     *)
(* the lines typed at the terminal.  Each step draws the lines it reads;   *)
(* a read that finds no line left is end of input, and from then on every  *)
(* read finds end of input.                                                *)
(***************************************************************************)
ERROR_PERMISSION_DENIED == -3
ERROR_LIBRARY_CORRUPT == -6
ERROR_ENCRYPTION_FAILED == -7
ERROR_COMPRESSION_FAILED == -8
EXIT_SUCCESS == 0
EXIT_FAILURE == 1
SORT_BY_NAME == 1
SORT_BY_DATE == 2
SORT_BY_SIZE == 3

\* fgets(line, size, stdin) on the lines still to come
ReadLine(stdin) ==
    IF stdin = <<>> THEN [line |-> EndOfInput, stdin |-> <<>>, eof |-> TRUE]
    ELSE [line |-> Line(Head(stdin)), stdin |-> Tail(stdin), eof |-> FALSE]

\* while (*p == ' ' || *p == '\t') p++
RECURSIVE skip_blanks(_, _)
skip_blanks(s, p) ==
    IF p <= Len(s) /\ s[p] \in {32, 9} THEN skip_blanks(s, p + 1) ELSE p

\* the decimal digits strtol accumulates from position k on
RECURSIVE strtol_digits(_, _, _)
strtol_digits(s, k, acc) ==
    IF k <= Len(s) /\ s[k] \in 48..57
    THEN strtol_digits(s, k + 1, acc * 10 + (s[k] - 48))
    ELSE [val |-> acc, endptr |-> k]

\* strtol(p, &endptr, 10): an optional sign, then digits; endptr = p when
\* there is no digit
strtol(s, p) ==
    LET signed == p <= Len(s) /\ s[p] \in {43, 45}
        first == IF signed THEN p + 1 ELSE p
        d == strtol_digits(s, first, 0)
    IN  IF d.endptr = first THEN [val |-> 0, endptr |-> p]
        ELSE [val |-> IF signed /\ s[p] = 45 THEN 0 - d.val ELSE d.val,
              endptr |-> d.endptr]

\* one pass of the while (1) of get_user_choice over a line that was read
choice_on_line(text, min_value, max_value) ==
    LET p == skip_blanks(text, 1)
        n == strtol(text, p)
    IN  IF n.endptr = p THEN [ok |-> FALSE, val |-> 0]
        ELSE IF n.endptr <= Len(text) THEN [ok |-> FALSE, val |-> 0]
        ELSE IF n.val < min_value \/ n.val > max_value THEN [ok |-> FALSE, val |-> 0]
        ELSE [ok |-> TRUE, val |-> n.val]

\* get_user_choice: lines are read until one holds a number in range; when
\* fgets fails, min_value is returned
RECURSIVE get_user_choice(_, _, _)
get_user_choice(stdin, min_value, max_value) ==
    IF stdin = <<>> THEN [value |-> min_value, stdin |-> <<>>, eof |-> TRUE]
    ELSE IF choice_on_line(Head(stdin), min_value, max_value).ok
    THEN [value |-> choice_on_line(Head(stdin), min_value, max_value).val,
          stdin |-> Tail(stdin), eof |-> FALSE]
    ELSE get_user_choice(Tail(stdin), min_value, max_value)

\* get_user_confirmation: 1 when the line starts with y or Y, 0 otherwise
\* and when nothing could be read
get_user_confirmation(line) ==
    IF line.eof THEN 0
    ELSE IF line.text # <<>> /\ line.text[1] \in {121, 89} THEN 1 ELSE 0

\* display_error: the text printed after "Error in <context>: " and the
\* number printed with it (SUCCESS when none is)
display_error(error_code) ==
    IF error_code = ERROR_FILE_NOT_FOUND THEN [text |-> "File not found", code |-> SUCCESS]
    ELSE IF error_code = ERROR_INVALID_PATH THEN [text |-> "Invalid file path", code |-> SUCCESS]
    ELSE IF error_code = ERROR_PERMISSION_DENIED THEN [text |-> "Permission denied", code |-> SUCCESS]
    ELSE IF error_code = ERROR_INVALID_PASSWORD THEN [text |-> "Invalid password", code |-> SUCCESS]
    ELSE IF error_code = ERROR_MEMORY_ALLOCATION THEN [text |-> "Memory allocation failed", code |-> SUCCESS]
    ELSE IF error_code = ERROR_LIBRARY_CORRUPT THEN [text |-> "Library file is corrupted", code |-> SUCCESS]
    ELSE IF error_code = ERROR_ENCRYPTION_FAILED THEN [text |-> "Encryption operation failed", code |-> SUCCESS]
    ELSE IF error_code = ERROR_COMPRESSION_FAILED THEN [text |-> "Compression operation failed", code |-> SUCCESS]
    ELSE [text |-> "Unknown error (code: %d)", code |-> error_code]

\* what the menu loops print when an operation returned result
reported(result) == IF result # SUCCESS THEN <<display_error(result)>> ELSE <<>>

\* display_library_contents: the rows printed, row i under the number i;
\* the copy of the records is sorted, the list is left as it is
display_library_contents(lib, h, sort_option) ==
    IF lib.count = 0 THEN {<<>>}
    ELSE IF sort_option = SORT_BY_NAME THEN qsort_cmp_name(sort_array(lib, h))
    ELSE IF sort_option = SORT_BY_DATE THEN qsort_cmp_date(sort_array(lib, h))
    ELSE IF sort_option = SORT_BY_SIZE THEN qsort_cmp_size(sort_array(lib, h))
    ELSE {sort_array(lib, h)}

\* display_file_information: the record whose details are printed
display_file_information(lib, h, index) ==
    IF get_library_entry(lib, h, index) = NULL THEN <<>>
    ELSE <<h[get_library_entry(lib, h, index)].data>>

\* what load_encryption_library may report to initialize_program: the
\* result of the stub, and the two failures of a loader that reads the
\* library file (no file, a file that does not parse)
LoadOutcomes(d) ==
    {load_encryption_library(d)} \cup
    {[ret |-> e, library |-> EmptyLibrary] :
        e \in {ERROR_FILE_NOT_FOUND, ERROR_LIBRARY_CORRUPT}}

\* the texts typed at the prompts
ChoiceTexts == {<<48 + n>> : n \in 0..7} \cup {<<120>>, <<32, 50>>, <<50, 120>>}
\* encrypt_file_workflow: the path, then "k" as the answer and the password
EncryptTyped ==
    {<<>>, <<PATH_NONE>>, <<PATH_A>>, <<PATH_A, <<107>>>>, <<PATH_A, <<107>>, <<107>>>>}
\* decrypt_file_workflow: the path, then the password "k"
DecryptTyped == {<<>>, <<PATH_NONE>>, <<PATH_A>>, <<PATH_A, <<107>>>>}
NumberTexts == {<<48 + n>> : n \in 0..3} \cup {<<120>>}
MaxTyped == 2       \* lines typed at one prompt for a number
MaxFiles == 2       \* the menu starts no encryption once next_id exceeds this

\* load: what load_encryption_library returned; init: what initialize_program
\* returned; entered: main_menu_loop was called; eof: a read found end of
\* input; choice: the menu choice read; shown: the rows last displayed;
\* number: the file number entered; target: the record the operation used;
\* err: what display_error printed
MenuIdle ==
    [load |-> 0, init |-> 0, entered |-> FALSE, eof |-> FALSE, choice |-> 0,
     shown |-> <<>>, number |-> 0, target |-> <<>>, err |-> <<>>]

MenuInit ==
    /\ library = EmptyLibrary
    /\ heap = <<>>
    /\ disk = UserFiles
    /\ pc = "start"
    /\ last = Idle
    /\ pl = MenuIdle
    /\ cx_in = <<>>
    /\ cx_pw = <<>>
    /\ cx_op = "off"
    /\ cx_out = CxIdle

\* the lines a step may read: none once end of input was found
Typed(S) == IF pl.eof THEN {<<>>} ELSE S

MenuStep(eof, choice, shown, number, target, err) ==
    pl' = [pl EXCEPT !.eof = pl.eof \/ eof, !.choice = choice, !.shown = shown,
                     !.number = number, !.target = target, !.err = err]

\* main up to the call of main_menu_loop
Main ==
    /\ pc = "start"
    /\ \E loaded \in LoadOutcomes(disk) :
         LET r == initialize_program_from(loaded)
         IN  /\ library' = r.library
             /\ heap' = r.heap
             /\ pl' = [pl EXCEPT !.load = loaded.ret, !.init = r.ret,
                                  !.entered = (r.ret = SUCCESS)]
             /\ pc' = IF r.ret # SUCCESS THEN "exited" ELSE "main_menu"
             /\ last' = IF r.ret # SUCCESS
                        THEN [Idle EXCEPT !.op = "main", !.ret = EXIT_FAILURE]
                        ELSE [Idle EXCEPT !.op = "initialize_program"]
    /\ UNCHANGED <<disk, cxVars>>

\* main_menu_loop: display_main_menu and get_user_choice
MenuPrompt ==
    /\ pc = "main_menu"
    /\ \E typed \in Typed(SeqsUpTo(ChoiceTexts, MaxTyped)) :
         LET c == get_user_choice(typed, 1, 6)
         IN  /\ c.stdin = <<>>
             /\ MenuStep(c.eof, c.value, <<>>, 0, <<>>, <<>>)
    /\ pc' = "command"
    /\ last' = [Idle EXCEPT !.op = "get_user_choice"]
    /\ UNCHANGED <<library, heap, disk, cxVars>>

\* process_user_command has returned r to main_menu_loop
MenuReturned(r, op, eof, shown) ==
    /\ library' = r.library
    /\ heap' = r.heap
    /\ disk' = r.disk
    /\ last' = [Idle EXCEPT !.op = op, !.ret = r.ret]
    /\ MenuStep(eof, pl.choice, shown, 0, <<>>, reported(r.ret))
    /\ pc' = "main_menu"
    /\ UNCHANGED cxVars

Unchanged(code) == [ret |-> code, library |-> library, heap |-> heap, disk |-> disk]

\* case 1: encrypt_file_workflow reads the path, the y/n answer, the password
MenuEncrypt ==
    /\ pc = "command" /\ pl.choice = 1
    /\ \E typed \in Typed(EncryptTyped), undef \in UndefinedReturn :
         LET p == ReadLine(typed)
             accepted == get_file_path_from_user(disk, p.line) = SUCCESS
             yn == ReadLine(p.stdin)
             pw == ReadLine(yn.stdin)
         IN  /\ (IF accepted THEN pw.stdin ELSE p.stdin) = <<>>
             /\ accepted => library.next_id <= MaxFiles
             /\ get_user_confirmation(yn.line) = 0 => undef = 0
             /\ MenuReturned(encrypt_file_workflow(library, heap, disk, p.line,
                                 get_user_confirmation(yn.line), pw.line, undef,
                                 0, FALSE),
                             "encrypt_file_workflow",
                             IF accepted THEN pw.eof ELSE p.eof, <<>>)

\* case 2: decrypt_file_workflow reads the path and the password
MenuDecrypt ==
    /\ pc = "command" /\ pl.choice = 2
    /\ \E typed \in Typed(DecryptTyped) :
         LET p == ReadLine(typed)
             accepted == ~p.eof /\ validate_file_path(disk, p.line.text) = SUCCESS
             pw == ReadLine(p.stdin)
         IN  /\ (IF accepted THEN pw.stdin ELSE p.stdin) = <<>>
             /\ MenuReturned(decrypt_file_workflow(library, heap, disk, p.line,
                                                   pw.line, 0),
                             "decrypt_file_workflow",
                             IF accepted THEN pw.eof ELSE p.eof, <<>>)

\* case 3: display_library_contents(library, SORT_BY_NAME)
MenuShow ==
    /\ pc = "command" /\ pl.choice = 3
    /\ \E shown \in display_library_contents(library, heap, SORT_BY_NAME) :
         MenuReturned(Unchanged(SUCCESS), "display_library_contents", FALSE, shown)

\* case 4: file_management_menu is entered
MenuManage ==
    /\ pc = "command" /\ pl.choice = 4
    /\ pc' = "file_menu"
    /\ last' = [Idle EXCEPT !.op = "file_management_menu"]
    /\ UNCHANGED <<library, heap, disk, pl, cxVars>>

\* case 5: the sort option is read and the library displayed in that order
MenuSort ==
    /\ pc = "command" /\ pl.choice = 5
    /\ \E typed \in Typed(SeqsUpTo(NumberTexts, MaxTyped)) :
         LET c == get_user_choice(typed, 1, 3)
         IN  /\ c.stdin = <<>>
             /\ \E shown \in display_library_contents(library, heap, c.value) :
                  MenuReturned(Unchanged(SUCCESS), "display_library_contents",
                               c.eof, shown)

\* case 6: main_menu_loop returns SUCCESS; main calls cleanup_program and
\* returns EXIT_SUCCESS
MenuExit ==
    /\ pc = "command" /\ pl.choice = 6
    /\ library' = cleanup_program(library)
    /\ pc' = "exited"
    /\ last' = [Idle EXCEPT !.op = "main", !.ret = EXIT_SUCCESS]
    /\ UNCHANGED <<heap, disk, pl, cxVars>>

\* file_management_menu: the menu is printed and get_user_choice called
FilePrompt ==
    /\ pc = "file_menu"
    /\ \E typed \in Typed(SeqsUpTo(ChoiceTexts, MaxTyped)) :
         LET c == get_user_choice(typed, 1, 5)
         IN  /\ c.stdin = <<>>
             /\ MenuStep(c.eof, c.value, <<>>, 0, <<>>, <<>>)
    /\ pc' = "file_command"
    /\ last' = [Idle EXCEPT !.op = "get_user_choice"]
    /\ UNCHANGED <<library, heap, disk, cxVars>>

\* one case of the switch of file_management_menu is over, its result shown
FileReturned(r, op, eof, shown, number, target, name, sys) ==
    /\ library' = r.library
    /\ heap' = r.heap
    /\ disk' = r.disk
    /\ last' = [op |-> op, ret |-> r.ret, index |-> number - 1, name |-> name,
                sys |-> sys]
    /\ MenuStep(eof, pl.choice, shown, number, target, reported(r.ret))
    /\ pc' = "file_menu"
    /\ UNCHANGED cxVars

\* the cases 1, 3 and 4 with an empty library: a message, nothing else
FileNothing(op) ==
    FileReturned(Unchanged(SUCCESS), op, FALSE, <<>>, 0, <<>>, <<>>, 0)

\* case 1: view file details
FileView ==
    /\ pc = "file_command" /\ pl.choice = 1
    /\ IF library.count = 0 THEN FileNothing("display_file_information")
       ELSE \E shown \in display_library_contents(library, heap, SORT_BY_NAME),
               typed \in Typed(SeqsUpTo(NumberTexts, MaxTyped)) :
              LET c == get_user_choice(typed, 0, library.count)
              IN  /\ c.stdin = <<>>
                  /\ FileReturned(Unchanged(SUCCESS), "display_file_information",
                        c.eof, shown, c.value,
                        IF c.value > 0
                        THEN display_file_information(library, heap, c.value - 1)
                        ELSE <<>>,
                        <<>>, 0)

\* case 2: search files by name; the matches are printed
FileSearch ==
    /\ pc = "file_command" /\ pl.choice = 2
    /\ \E typed \in Typed({<<>>, <<PATH_A>>, <<NAME_N>>, <<<<>>>>}) :
         LET s == ReadLine(typed)
             r == search_library_by_name(library, heap, s.line.text, 20)
         IN  /\ last' = [Idle EXCEPT !.op = "search_library_by_name",
                                     !.ret = IF s.eof THEN 0 ELSE r.found,
                                     !.name = s.line.text]
             /\ MenuStep(s.eof, pl.choice, <<>>, 0, <<>>, <<>>)
    /\ pc' = "file_menu"
    /\ UNCHANGED <<library, heap, disk, cxVars>>

\* the record at a 0-based index of the list, as a sequence of one record
EntryAt(index) == display_file_information(library, heap, index)

\* case 3: delete encrypted file
FileDelete ==
    /\ pc = "file_command" /\ pl.choice = 3
    /\ IF library.count = 0 THEN FileNothing("delete_encrypted_file")
       ELSE \E shown \in display_library_contents(library, heap, SORT_BY_NAME),
               typed \in Typed(SeqsUpTo(NumberTexts, MaxTyped)),
               refuse \in BOOLEAN :
              LET c == get_user_choice(typed, 0, library.count)
                  r == delete_encrypted_file(library, heap, disk, c.value - 1, refuse)
              IN  /\ c.stdin = <<>>
                  /\ c.value = 0 => ~refuse
                  /\ IF c.value > 0
                     THEN FileReturned(r, "delete_encrypted_file", c.eof, shown,
                                       c.value, EntryAt(c.value - 1), <<>>, r.sys)
                     ELSE FileReturned(Unchanged(SUCCESS), "delete_encrypted_file",
                                       c.eof, shown, 0, <<>>, <<>>, 0)

\* case 4: rename encrypted file; the new name is read after the number
FileRename ==
    /\ pc = "file_command" /\ pl.choice = 4
    /\ IF library.count = 0 THEN FileNothing("rename_encrypted_file")
       ELSE \E shown \in display_library_contents(library, heap, SORT_BY_NAME),
               typed \in Typed(SeqsUpTo(NumberTexts \cup {NAME_N}, MaxTyped + 1)),
               refuse \in BOOLEAN :
              LET c == get_user_choice(typed, 0, library.count)
                  n == ReadLine(c.stdin)
                  r == rename_encrypted_file(library, heap, disk, c.value - 1,
                                             n.line.text, refuse)
              IN  /\ (IF c.value > 0 THEN n.stdin ELSE c.stdin) = <<>>
                  /\ (c.value = 0 \/ n.eof) => ~refuse
                  /\ IF c.value > 0 /\ ~n.eof
                     THEN FileReturned(r, "rename_encrypted_file", FALSE, shown,
                                       c.value, EntryAt(c.value - 1), n.line.text,
                                       r.sys)
                     ELSE FileReturned(Unchanged(SUCCESS), "rename_encrypted_file",
                                       IF c.value > 0 THEN n.eof ELSE c.eof,
                                       shown, c.value, <<>>, <<>>, 0)

\* case 5: file_management_menu returns SUCCESS to process_user_command and
\* main_menu_loop goes round again
FileReturn ==
    /\ pc = "file_command" /\ pl.choice = 5
    /\ pc' = "main_menu"
    /\ last' = [Idle EXCEPT !.op = "file_management_menu"]
    /\ UNCHANGED <<library, heap, disk, pl, cxVars>>

MenuNext ==
    \/ Main
    \/ MenuPrompt
    \/ MenuEncrypt
    \/ MenuDecrypt
    \/ MenuShow
    \/ MenuManage
    \/ MenuSort
    \/ MenuExit
    \/ FilePrompt
    \/ FileView
    \/ FileSearch
    \/ FileDelete
    \/ FileRename
    \/ FileReturn

SpecMenu == MenuInit /\ [][MenuNext]_vars

\* the loops are not left waiting: a step that can be taken is taken
SpecMenuFair == SpecMenu /\ WF_vars(MenuNext)

C27_EveryErrorHasItsMessage ==
    \A k \in DOMAIN pl.err :
        /\ pl.err[k].code = SUCCESS
        /\ pl.err[k].text # "Unknown error (code: %d)"

\* C28: in the file management menu the number entered for view details,
\* delete or rename selects the record that display_library_contents
\* printed under that number.
C28_NumberSelectsDisplayedRecord ==
    (pc = "file_menu" /\ pl.number > 0 /\ pl.target # <<>>) =>
        pl.shown[pl.number] = pl.target[1]

\* C30: once the input is exhausted (every read finds end of input),
\* main_menu_loop eventually returns and the program ends.
C30_ExhaustedInputReturns == (pl.entered /\ pl.eof) ~> (pc = "exited")

=============================================================================
